---- MODULE Spec2Model ----
\* mkfw: assembles an ODROID-GO firmware image (header, description, tile,
\* partition records with their payloads, trailing CRC32).  The model follows
\* main() of mkfw version 1.1.0 statement by statement.
EXTENDS Integers, Sequences, FiniteSets, TLC

\* ---------------------------------------------------------------- text
\* A C string is the sequence of its character codes, without the final NUL.
Ord ==
    ("0" :> 48) @@ ("1" :> 49) @@ ("2" :> 50) @@ ("3" :> 51) @@ ("4" :> 52) @@ ("5" :> 53) @@
    ("6" :> 54) @@ ("7" :> 55) @@ ("8" :> 56) @@ ("9" :> 57) @@ ("a" :> 97) @@ ("b" :> 98) @@
    ("c" :> 99) @@ ("d" :> 100) @@ ("e" :> 101) @@ ("f" :> 102) @@ ("g" :> 103) @@
    ("h" :> 104) @@ ("i" :> 105) @@ ("j" :> 106) @@ ("k" :> 107) @@ ("l" :> 108) @@
    ("m" :> 109) @@ ("n" :> 110) @@ ("o" :> 111) @@ ("p" :> 112) @@ ("q" :> 113) @@
    ("r" :> 114) @@ ("s" :> 115) @@ ("t" :> 116) @@ ("u" :> 117) @@ ("v" :> 118) @@
    ("w" :> 119) @@ ("x" :> 120) @@ ("y" :> 121) @@ ("z" :> 122) @@ ("A" :> 65) @@
    ("B" :> 66) @@ ("C" :> 67) @@ ("D" :> 68) @@ ("E" :> 69) @@ ("F" :> 70) @@ ("G" :> 71) @@
    ("H" :> 72) @@ ("I" :> 73) @@ ("J" :> 74) @@ ("K" :> 75) @@ ("L" :> 76) @@ ("M" :> 77) @@
    ("N" :> 78) @@ ("O" :> 79) @@ ("P" :> 80) @@ ("Q" :> 81) @@ ("R" :> 82) @@ ("S" :> 83) @@
    ("T" :> 84) @@ ("U" :> 85) @@ ("V" :> 86) @@ ("W" :> 87) @@ ("X" :> 88) @@ ("Y" :> 89) @@
    ("Z" :> 90) @@ ("_" :> 95) @@ ("." :> 46) @@ ("-" :> 45) @@ ("+" :> 43) @@ (" " :> 32)

\* the C string written "str" in the source or on the command line
S(str) == [i \in 1..Len(str) |-> Ord[SubSeq(str, i, i)]]

\* str[i] in C (0-based); str[strlen(str)] is the terminating NUL
ch(str, i) == IF i < Len(str) THEN str[i + 1] ELSE 0

\* a copy that always ends the field with a zero
strncpy_Terminated(src, n) == [i \in 1..n |-> IF i <= Len(src) /\ i < n THEN src[i] ELSE 0]

\* strncpy(dst, src, n) into a buffer of n bytes: the first min(strlen, n) bytes
\* of src, then NULs up to n; no NUL is added when strlen(src) >= n
strncpy(src, n) == [i \in 1..n |-> IF i <= Len(src) THEN src[i] ELSE 0]

\* strncmp(str, prefix, strlen(prefix)) == 0
strncmp0(str, prefix) ==
    /\ Len(str) >= Len(prefix)
    /\ SubSeq(str, 1, Len(prefix)) = prefix

endsWith(str, suffix) ==
    /\ Len(str) >= Len(suffix)
    /\ SubSeq(str, Len(str) - Len(suffix) + 1, Len(str)) = suffix

\* ------------------------------------------------------------- integers
\* unsigned long, long, uint32_t and file sizes exceed the integers of the
\* model checker, so such a value is kept as its digits in base 2^16, least
\* significant first, without leading zero digits (0 is the empty sequence).
Base == 2^16

RECURSIVE Trim(_)
Trim(a) == IF a # <<>> /\ a[Len(a)] = 0 THEN Trim(SubSeq(a, 1, Len(a) - 1)) ELSE a

RECURSIVE FromInt(_)
FromInt(n) == IF n = 0 THEN <<>> ELSE <<n % Base>> \o FromInt(n \div Base)

Digit(a, i) == IF i <= Len(a) THEN a[i] ELSE 0

RECURSIVE AddFrom(_, _, _, _)
AddFrom(a, b, i, carry) ==
    IF i > Len(a) /\ i > Len(b)
    THEN IF carry = 0 THEN <<>> ELSE <<carry>>
    ELSE LET t == Digit(a, i) + Digit(b, i) + carry
         IN  <<t % Base>> \o AddFrom(a, b, i + 1, t \div Base)

NAdd(a, b) == AddFrom(a, b, 1, 0)

RECURSIVE SubFrom(_, _, _, _)
SubFrom(a, b, i, borrow) ==
    IF i > Len(a)
    THEN <<>>
    ELSE LET t == Digit(a, i) - Digit(b, i) - borrow
         IN  IF t < 0 THEN <<t + Base>> \o SubFrom(a, b, i + 1, 1)
                      ELSE <<t>> \o SubFrom(a, b, i + 1, 0)

\* a - b, for a >= b
NSub(a, b) == Trim(SubFrom(a, b, 1, 0))

RECURSIVE LessFrom(_, _, _)
LessFrom(a, b, i) ==
    IF i = 0 THEN FALSE
    ELSE IF a[i] # b[i] THEN a[i] < b[i]
    ELSE LessFrom(a, b, i - 1)

NLess(a, b) == IF Len(a) # Len(b) THEN Len(a) < Len(b) ELSE LessFrom(a, b, Len(a))

NLeq(a, b) == ~NLess(b, a)

RECURSIVE MulFrom(_, _, _, _)
MulFrom(a, m, i, carry) ==
    IF i > Len(a)
    THEN IF carry = 0 THEN <<>> ELSE <<carry>>
    ELSE LET t == a[i] * m + carry
         IN  <<t % Base>> \o MulFrom(a, m, i + 1, t \div Base)

\* a * m + d for a small multiplier m and a digit d
NMulAdd(a, m, d) == MulFrom(a, m, 1, d)

\* (uint32_t) a and (uint8_t) a
U32(a) == Trim(<<Digit(a, 1), Digit(a, 2)>>)
U8(a) == Digit(a, 1) % 256

\* the four bytes of htole32(a) in memory order, for a uint32_t a
le32(a) == <<Digit(a, 1) % 256, Digit(a, 1) \div 256, Digit(a, 2) % 256, Digit(a, 2) \div 256>>

ULONG_MAX == <<Base - 1, Base - 1, Base - 1, Base - 1>>
LONG_MAX == <<Base - 1, Base - 1, Base - 1, (Base \div 2) - 1>>

\* ---------------------------------------------------------------- strtoul
isspace(c) == c \in {32, 9, 10, 11, 12, 13}

DigitVal(c) ==
    IF c \in 48..57 THEN c - 48
    ELSE IF c \in 97..122 THEN c - 87
    ELSE IF c \in 65..90 THEN c - 55
    ELSE 99

RECURSIVE SkipSpace(_, _)
SkipSpace(str, i) == IF isspace(ch(str, i)) THEN SkipSpace(str, i + 1) ELSE i

\* the digits of str from position i on, in the given base: the value so far,
\* whether it has left the range of unsigned long, and where the digits end
RECURSIVE Digits(_, _, _, _, _)
Digits(str, i, base, acc, ovf) ==
    IF DigitVal(ch(str, i)) >= base
    THEN [value |-> acc, end |-> i, ovf |-> ovf]
    ELSE LET next == NMulAdd(acc, base, DigitVal(ch(str, i)))
         IN  IF ovf \/ Len(next) > 4
             THEN Digits(str, i + 1, base, <<>>, TRUE)
             ELSE Digits(str, i + 1, base, next, FALSE)

\* strtoul(str, &endPtr, 0) on a 64-bit unsigned long: value, endPtr as an
\* offset into str, and whether errno was set to ERANGE
strtoul(str) ==
    LET i0 == SkipSpace(str, 0)
        neg == ch(str, i0) = 45
        i1 == IF ch(str, i0) \in {43, 45} THEN i0 + 1 ELSE i0
        hex == /\ ch(str, i1) = 48
               /\ ch(str, i1 + 1) \in {120, 88}
               /\ DigitVal(ch(str, i1 + 2)) < 16
        base == IF hex THEN 16 ELSE IF ch(str, i1) = 48 THEN 8 ELSE 10
        i2 == IF hex THEN i1 + 2 ELSE i1
        d == Digits(str, i2, base, <<>>, FALSE)
    IN  IF d.end = i2 THEN [value |-> <<>>, endPtr |-> 0, erange |-> FALSE]
        ELSE IF d.ovf THEN [value |-> ULONG_MAX, endPtr |-> d.end, erange |-> TRUE]
        ELSE IF neg /\ d.value # <<>>
             THEN [value |-> NSub(<<0, 0, 0, 0, 1>>, d.value), endPtr |-> d.end, erange |-> FALSE]
             ELSE [value |-> d.value, endPtr |-> d.end, erange |-> FALSE]

\* ------------------------------------------------------------ constants
RET_OK == 0
RET_INVALID_PARAMS == -1
RET_READ_ERROR == -2
RET_WRITE_ERROR == -3

PARTITION_APP == 0
PARTITION_DATA == 1

APP_FACTORY == 0
DATA_OTA == 0
DATA_PHY == 1
DATA_NVS == 2
APP_OTA(X) == 16 + (X % 16)

kHeaderSize == 24
kFirmwareDescriptionSize == 40
kTileWidth == 86
kTileHeight == 48
kTileByteSize == kTileWidth * kTileHeight * 2
kBufferSize == 10 * 1024 * 1024
kDefaultFirmwareName == S("firmware.fw")
kDefaultHeader == S("ODROIDGO_FIRMWARE_V00_01")

\* sizeof(odroid_partition_t) and sizeof(part.label)
PartitionSize == 28
LabelSize == 16

\* ------------------------------------------------------------------ bytes
\* A run of bytes in memory or in a file is a sequence of segments:
\*   [k |-> "lit",  b |-> bytes]            bytes known to the program
\*   [k |-> "file", f, off, len]            bytes off .. off+len-1 of input file f
\*   [k |-> "mem",  f, off, len]            bytes off .. off+len-1 a buffer f held before
\*   [k |-> "rep",  unit, count]            the bytes of unit, count times over
\*   [k |-> "crc",  of |-> bytes]           htole32 of the CRC32 of a run of bytes
\* Segments are kept merged, so that two runs are equal exactly when they are
\* the same bytes taken from the same places.
Lit(b) == IF b = <<>> THEN <<>> ELSE <<[k |-> "lit", b |-> b]>>

Window(kind, f, off, len) ==
    IF len = <<>> THEN <<>> ELSE <<[k |-> kind, f |-> f, off |-> off, len |-> len]>>

SegLen(seg) ==
    IF seg.k = "lit" THEN FromInt(Len(seg.b))
    ELSE IF seg.k = "crc" THEN FromInt(4)
    ELSE IF seg.k = "rep" THEN FromInt(Len(seg.unit) * seg.count)
    ELSE seg.len

\* unit repeated count times, with unit cut down to its shortest period
Rep(unit, count) ==
    IF unit = <<>> \/ count = 0 THEN <<>>
    ELSE LET n == Len(unit)
             periods == {d \in 1..n : n % d = 0 /\ \A i \in 1..(n - d) : unit[i] = unit[i + d]}
             d == CHOOSE x \in periods : \A y \in periods : x <= y
         IN  <<[k |-> "rep", unit |-> SubSeq(unit, 1, d), count |-> count * (n \div d)]>>

RECURSIVE ByteLen(_)
ByteLen(run) == IF run = <<>> THEN <<>> ELSE NAdd(SegLen(Head(run)), ByteLen(Tail(run)))

\* two adjacent segments as one, where they continue each other
Join(s, t) ==
    IF s.k = "lit" /\ t.k = "lit" THEN <<[k |-> "lit", b |-> s.b \o t.b]>>
    ELSE IF /\ s.k \in {"file", "mem"}
            /\ t.k = s.k
            /\ t.f = s.f
            /\ t.off = NAdd(s.off, s.len)
         THEN <<[s EXCEPT !.len = NAdd(s.len, t.len)]>>
         ELSE <<s, t>>

RECURSIVE Cat(_, _)
Cat(a, b) ==
    IF b = <<>> THEN a
    ELSE IF a = <<>> THEN Cat(<<Head(b)>>, Tail(b))
    ELSE Cat(SubSeq(a, 1, Len(a) - 1) \o Join(a[Len(a)], Head(b)), Tail(b))

\* the first byte of a run: what a failed write may leave behind
FirstByte(run) ==
    IF run = <<>> THEN <<>>
    ELSE LET s == Head(run)
         IN  IF s.k = "lit" THEN Lit(<<s.b[1]>>)
             ELSE IF s.k = "crc" THEN <<>>
             ELSE IF s.k = "rep" THEN Lit(<<s.unit[1]>>)
             ELSE Window(s.k, s.f, s.off, FromInt(1))

\* a run without its first n bytes (n a number of the Base arithmetic)
RECURSIVE Drop(_, _)
Drop(run, n) ==
    IF n = <<>> \/ run = <<>> THEN run
    ELSE LET s == Head(run)
             k == Digit(n, 1) + Base * Digit(n, 2)
         IN  IF NLeq(SegLen(s), n) THEN Drop(Tail(run), NSub(n, SegLen(s)))
             ELSE CASE s.k = "lit" -> Lit(SubSeq(s.b, k + 1, Len(s.b))) \o Tail(run)
                    [] s.k \in {"file", "mem"} ->
                         Window(s.k, s.f, NAdd(s.off, n), NSub(s.len, n)) \o Tail(run)
                    [] s.k = "rep" ->
                         LET u == Len(s.unit)
                             part == IF k % u = 0 THEN <<>>
                                     ELSE Lit(SubSeq(s.unit, (k % u) + 1, u))
                             whole == s.count - ((k + u - 1) \div u)
                         IN  Cat(Cat(part, Rep(s.unit, whole)), Tail(run))

\* a buffer after data was stored at its start
Overwrite(buffer, data) == Cat(data, Drop(buffer, ByteLen(data)))

\* the first n bytes of a run (n a number of the Base arithmetic)
RECURSIVE Take(_, _)
Take(run, n) ==
    IF n = <<>> \/ run = <<>> THEN <<>>
    ELSE LET s == Head(run)
             k == Digit(n, 1) + Base * Digit(n, 2)
         IN  IF NLeq(SegLen(s), n) THEN Cat(<<s>>, Take(Tail(run), NSub(n, SegLen(s))))
             ELSE CASE s.k = "lit" -> Lit(SubSeq(s.b, 1, k))
                    [] s.k \in {"file", "mem"} -> Window(s.k, s.f, s.off, n)
                    [] s.k = "rep" ->
                         LET u == Len(s.unit)
                         IN  Cat(Rep(s.unit, k \div u), Lit(SubSeq(s.unit, 1, k % u)))

\* crc32(crc, buf, len) of crc32.c.  The accumulator is identified with the
\* bytes it has consumed since zero, so that chaining is concatenation:
\* crc32(crc32(0, a), b) = crc32(0, a b), and crc32(crc, buf, 0) = crc.
crc32(crc, buf) == Cat(crc, buf)

\* the bytes of a uint32_t crc after htole32
CrcBytes(crc) == <<[k |-> "crc", of |-> crc]>>

\* fwrite(ptr, size, 1, stream): the outcomes the C library can produce.  With
\* size 0 fwrite returns 0; otherwise the write succeeds with every byte
\* delivered, or fails with none or only a first part delivered.
fwrite(data) ==
    IF data = <<>>
    THEN {[ok |-> FALSE, got |-> <<>>]}
    ELSE {[ok |-> TRUE, got |-> data], [ok |-> FALSE, got |-> <<>>]}
         \cup (IF ByteLen(data) # FromInt(1) /\ FirstByte(data) # <<>>
               THEN {[ok |-> FALSE, got |-> FirstByte(data)]} ELSE {})

\* writeAndCrc without the crc32 update
writeAndCrc_NoCrc(data, crc, w) == [crc |-> crc, ok |-> w.ok, got |-> w.got]

\* writeAndCrc(ptr, size, stream, crc) with w the outcome of its fwrite
writeAndCrc(data, crc, w) == [crc |-> crc32(crc, data), ok |-> w.ok, got |-> w.got]

\* ------------------------------------------------------------ file system
\* The input files a run can name.  A file that is not listed does not exist.
\* A png file carries what the uPNG decoder reports for it: the error codes of
\* upng_header and upng_decode, the size, the format, and at upng_get_buffer
\* the bytes of data, over and over.  ovf is what this build makes of a signed
\* multiplication past INT_MAX, which only the transcoder of the tile meets.
RawFile(size) == [size |-> size, png |-> FALSE]

PngFile(hdr, width, height, dec, fmt, data) ==
    [size |-> FromInt(1024), png |-> TRUE, hdr |-> hdr, width |-> width,
     height |-> height, dec |-> dec, fmt |-> fmt, data |-> data, ovf |-> "wrap"]

FS ==
    (S("tile.raw") :> RawFile(FromInt(kTileByteSize))) @@
    (S("short.raw") :> RawFile(FromInt(kTileByteSize - 1))) @@
    (S("long.raw") :> RawFile(FromInt(kTileByteSize + 1))) @@
    (S("empty.raw") :> RawFile(<<>>)) @@
    (S("tile.png") :> PngFile("UPNG_EOK", kTileWidth, kTileHeight, "UPNG_EOK", "UPNG_RGB8", <<200, 100, 50>>)) @@
    (S("gray.png") :> PngFile("UPNG_EOK", kTileWidth, kTileHeight, "UPNG_EOK", "UPNG_LUMINANCE8", <<90>>)) @@
    (S("wide.png") :> PngFile("UPNG_EOK", kTileWidth + 1, kTileHeight, "UPNG_EOK", "UPNG_RGB8", <<200, 100, 50>>)) @@
    (S("tall.png") :> PngFile("UPNG_EOK", kTileWidth, kTileHeight - 1, "UPNG_EOK", "UPNG_RGB8", <<200, 100, 50>>)) @@
    (S("text.png") :> PngFile("UPNG_ENOTPNG", 0, 0, "UPNG_ENOTPNG", "UPNG_BADFORMAT", <<>>)) @@
    (S("torn.png") :> PngFile("UPNG_EOK", kTileWidth, kTileHeight, "UPNG_EMALFORMED", "UPNG_RGB8", <<>>)) @@
    (S("odd.png") :> PngFile("UPNG_EOK", kTileWidth, kTileHeight, "UPNG_EOK", "UPNG_BADFORMAT", <<>>)) @@
    (S("b0") :> RawFile(<<>>)) @@
    (S("b1") :> RawFile(FromInt(1))) @@
    (S("b65535") :> RawFile(FromInt(65535))) @@
    (S("b65536") :> RawFile(FromInt(65536))) @@
    (S("b65537") :> RawFile(FromInt(65537))) @@
    (S("b10m") :> RawFile(FromInt(kBufferSize))) @@
    (S("b10m1") :> RawFile(FromInt(kBufferSize + 1))) @@
    (S("b20m") :> RawFile(FromInt(2 * kBufferSize))) @@
    (S("bffff0000") :> RawFile(<<0, Base - 1>>)) @@
    (S("bffff0001") :> RawFile(<<1, Base - 1>>)) @@
    (S("bffffffff") :> RawFile(<<Base - 1, Base - 1>>)) @@
    (S("b4g") :> RawFile(<<0, 0, 1>>)) @@
    (S("b4g1") :> RawFile(<<1, 0, 1>>))

Exists(name) == name \in DOMAIN FS

\* what the uPNG decoder reports for the file called name
Upng(name) ==
    IF Exists(name) /\ FS[name].png THEN FS[name]
    ELSE IF Exists(name) THEN PngFile("UPNG_ENOTPNG", 0, 0, "UPNG_ENOTPNG", "UPNG_BADFORMAT", <<>>)
    ELSE PngFile("UPNG_ENOTFOUND", 0, 0, "UPNG_ENOTFOUND", "UPNG_BADFORMAT", <<>>)

\* ----------------------------------------------------------------- inputs
\* the most partitions on a command line
MaxParts == 2

Tuple(type, subtype, length, label, file) ==
    [type |-> S(type), subtype |-> S(subtype), length |-> S(length),
     label |-> S(label), file |-> S(file)]

BaseTuple == Tuple("app", "factory", "auto", "app", "b1")

DataTuple == Tuple("data", "nvs", "65536", "nvs_storage", "b65536")

\* the partitions of a command line that are not varied: app and data in turn
PlainList(k) == [i \in 1..k |-> IF i % 2 = 1 THEN BaseTuple ELSE DataTuple]

TypeArgs ==
    {"app", "data", "0", "1", "2", "0x05", "63", "0x3f", "0x40", "64", "0xfe", "0xff",
     "255", "256", "0x100", "", "x", "64x", "-1", "010", "0100", "0X41", " 65",
     "99999999999999999999", "18446744073709551615", "APP"}

SubtypeTypes == {"app", "data", "0", "1", "0x40", "0xff"}

SubtypeArgs ==
    {"factory", "ota_0", "ota_1", "ota_9", "ota_10", "ota_15", "ota_16", "ota_05", "ota_",
     "ota_a", "ota_1a", "ota_19", "ota_100", "ota_20", "ota", "phy", "nvs", "test",
     "0", "1", "2", "3", "15", "16", "0x10", "0x1f", "0x20", "31", "32", "255", "0xff",
     "256", "2x", "0x", "", "-1", "99999999999999999999", "9223372036854775807"}

LengthArgs ==
    {"auto", "0", "65536", "0x10000", "131072", "100000", "1", "64k", "1M", "1m", "64K",
     "65536k", "65536M", "65536kx", "65536x", "4294967296", "0xffff0000", "4294901760",
     "0x100000000", "", "k", "Auto", "-65536", "99999999999999999999",
     "9223372036854775807", "0200000"}

PayloadFiles ==
    {"b0", "b1", "b65535", "b65536", "b65537", "b10m", "b10m1", "b20m", "bffff0000",
     "bffff0001", "bffffffff", "b4g", "b4g1", "none"}

Labels == {"", "app", "fifteen_chars_1", "sixteen_chars_16", "seventeen_chars_7", "0123456789abcdefghij"}

RichTuples ==
    {Tuple(t, "0", "auto", "app", "b1") : t \in TypeArgs}
    \cup {Tuple(t, s, "auto", "app", "b1") : t \in SubtypeTypes, s \in SubtypeArgs}
    \cup {Tuple("app", "factory", l, "app", "b1") : l \in LengthArgs}
    \cup {Tuple("app", "factory", "auto", "app", f) : f \in PayloadFiles}
    \cup {Tuple("app", "factory", l, "app", f) :
            l \in {"0", "65536", "131072", "0xffff0000"},
            f \in {"b0", "b65535", "b65536", "b65537"}}
    \cup {Tuple("data", "phy", "65536", l, "b1") : l \in Labels}

Arg5(t) == <<t.type, t.subtype, t.length, t.label, t.file>>

RECURSIVE PartArgs(_)
PartArgs(list) == IF list = <<>> THEN <<>> ELSE Arg5(Head(list)) \o PartArgs(Tail(list))

\* k partitions, one of them drawn from RichTuples
RichLists(k) ==
    UNION {{[PlainList(k) EXCEPT ![p] = r] : r \in RichTuples} : p \in 1..k}

Headers ==
    {"", "MYFW", "ODROIDGO_FIRMWARE_V00_02", "ODROIDGO_FIRMWARE_V00_01X",
     "a_header_of_thirty_characters_"}

Descriptions ==
    {"", "test", "a description of 39 characters 01234567",
     "a description of 40 characters 012345678", "a description of 41 characters 0123456789"}

Options ==
    {<<>>, <<[opt |-> "q", optarg |-> <<>>]>>, <<[opt |-> "h", optarg |-> <<>>]>>,
     <<[opt |-> "V", optarg |-> <<>>]>>, <<[opt |-> "?", optarg |-> <<>>]>>,
     <<[opt |-> "o", optarg |-> S("out.fw")]>>,
     <<[opt |-> "H", optarg |-> S("MYFW")], [opt |-> "H", optarg |-> S("X")]>>,
     <<[opt |-> "H", optarg |-> S("MYFW")], [opt |-> "V", optarg |-> <<>>]>>}
    \cup {<<[opt |-> "H", optarg |-> S(h)]>> : h \in Headers}

TileArgs ==
    {"tile.raw", "short.raw", "long.raw", "empty.raw", "none.raw", "tile.png", "gray.png",
     "wide.png", "tall.png", "text.png", "torn.png", "odd.png", "none.png", ".png", "png"}

Front == <<S("test"), S("tile.raw")>>

\* the command lines of the model: options and operands
Inputs ==
    {[opts |-> o, argv |-> Front \o Arg5(BaseTuple)] : o \in Options}
    \cup {[opts |-> <<>>, argv |-> a] : a \in {<<>>, <<S("test")>>}}
    \cup {[opts |-> <<>>, argv |-> <<S(d), S("tile.raw")>> \o Arg5(BaseTuple)] : d \in Descriptions}
    \cup {[opts |-> <<>>, argv |-> <<S("test"), S(f)>> \o Arg5(BaseTuple)] : f \in TileArgs}
    \cup {[opts |-> <<[opt |-> "H", optarg |-> S("MYFW")]>>,
           argv |-> <<S("test"), S(f)>>] : f \in {"tile.raw", "tile.png"}}
    \cup UNION {{[opts |-> <<>>, argv |-> Front \o PartArgs(l)] : l \in RichLists(k)} :
                k \in 1..MaxParts}
    \cup {[opts |-> <<>>, argv |-> Front \o PartArgs(PlainList(k))] : k \in 0..MaxParts}
    \cup UNION {{[opts |-> <<>>,
                  argv |-> Front \o PartArgs(PlainList(k)) \o SubSeq(Arg5(BaseTuple), 1, j)] :
                    j \in 1..4} : k \in 0..(MaxParts - 1)}

\* ------------------------------------------------------------------ state
VARIABLES
    opts,                   \* the options getopt_long will return, in order
    argv,                   \* the operands: argv[optind], argv[optind + 1], ...
    upng,                   \* what the uPNG decoder makes of the tile file
    pc,                     \* the statement of main() that runs next
    retval,                 \* <<>> while main runs, then <<its return value>>
    result, checksum, firmwareName, quiet,
    sHeader, sFirmwareDescription, sBuffer,
    tileFileName,
    arg,                    \* index into argv, counted from optind = 1
    partCount, part, autoPartitionSize, length,
    binary,                 \* the payload stream: file, position, end-of-file flag
    out,                    \* every fwrite to the firmware file, in order
    handles,                \* how often each kind of handle was opened and closed
    errno

inputVars == <<opts, argv, upng>>
optVars == <<firmwareName, quiet, sHeader>>
partVars == <<partCount, part, autoPartitionSize, length>>
vars == <<opts, argv, upng, pc, retval, result, checksum, firmwareName, quiet, sHeader,
          sFirmwareDescription, sBuffer, tileFileName, arg, partCount, part,
          autoPartitionSize, length, binary, out, handles, errno>>

argc == Len(argv) + 1

Zeros(n) == [i \in 1..n |-> 0]

\* memset(&part, 0, sizeof(odroid_partition_t))
ZeroPart ==
    [type |-> 0, subtype |-> 0, _reserved0 |-> 0, _reserved1 |-> 0,
     label |-> Zeros(LabelSize), flags |-> <<>>, length |-> <<>>]

\* the stack slot of part before its first memset: not zero
StackPart ==
    [type |-> 170, subtype |-> 170, _reserved0 |-> 170, _reserved1 |-> 170,
     label |-> [i \in 1..LabelSize |-> 170], flags |-> <<43690, 43690>>,
     length |-> <<43690, 43690>>]

\* the bytes of part in memory, in the order of the struct's fields
PartBytes(p) ==
    <<p.type, p.subtype, p._reserved0, p._reserved1>> \o p.label \o le32(p.flags)
        \o le32(p.length)

NoStream == [f |-> <<>>, pos |-> <<>>, eof |-> FALSE]

\* the streams main opens, the decoder object, and the pixel buffer that
\* upng_decode allocates in it and upng_free releases with it
Kinds == {"file", "tileFile", "binary", "upng", "pixels"}

Opened(h, k) == [h EXCEPT ![k].opens = @ + 1]
Closed(h, k) == [h EXCEPT ![k].closes = @ + 1]

Init ==
    /\ \E in \in Inputs : opts = in.opts /\ argv = in.argv
    /\ upng = Upng(IF Len(argv) >= 2 THEN argv[2] ELSE <<>>)
    /\ pc = "options"
    /\ retval = <<>>
    /\ result = RET_OK
    /\ checksum = <<>>
    /\ firmwareName = kDefaultFirmwareName
    /\ quiet = FALSE
    /\ sHeader = Zeros(kHeaderSize + 1)
    /\ sFirmwareDescription = Zeros(kFirmwareDescriptionSize)
    /\ sBuffer = <<>>
    /\ tileFileName = <<>>
    /\ arg = 1
    /\ partCount = 0
    /\ part = StackPart
    /\ autoPartitionSize = FALSE
    /\ length = <<>>
    /\ binary = NoStream
    /\ out = <<>>
    /\ handles = [k \in Kinds |-> [opens |-> 0, closes |-> 0]]
    /\ errno = "0"

\* --------------------------------------------------------------- options
\* the getopt_long loop: st is the state it works on, stop the option that
\* made main return ("" when the loop ran to its end)
RECURSIVE GetOpts(_, _)
GetOpts(os, st) ==
    IF os = <<>> THEN st
    ELSE LET o == Head(os)
         IN  IF o.opt = "H"
             THEN GetOpts(Tail(os), [st EXCEPT !.sHeader = strncpy(o.optarg, kHeaderSize) \o <<0>>])
             ELSE IF o.opt = "o"
             THEN GetOpts(Tail(os), [st EXCEPT !.firmwareName = o.optarg])
             ELSE IF o.opt = "q"
             THEN GetOpts(Tail(os), [st EXCEPT !.quiet = TRUE])
             ELSE [st EXCEPT !.stop = o.opt]

ParseOptions ==
    /\ pc = "options"
    /\ LET st == GetOpts(opts, [sHeader |-> strncpy(kDefaultHeader, kHeaderSize) \o <<0>>,
                                firmwareName |-> firmwareName, quiet |-> quiet,
                                stop |-> ""])
       IN  /\ sHeader' = st.sHeader
           /\ firmwareName' = st.firmwareName
           /\ quiet' = st.quiet
           /\ IF st.stop \in {"h", "V"}
              THEN pc' = "exit" /\ retval' = <<RET_OK>>
              ELSE IF st.stop # ""
              THEN pc' = "exit" /\ retval' = <<RET_INVALID_PARAMS>>
              ELSE pc' = "args" /\ retval' = retval
    /\ UNCHANGED <<inputVars, result, checksum, sFirmwareDescription, sBuffer, tileFileName,
                   arg, partVars, binary, out, handles, errno>>

\* description, tile file name, fopen(firmwareName, "wb")
OpenFirmware ==
    /\ pc = "args"
    /\ UNCHANGED <<inputVars, optVars, result, checksum, sBuffer, partVars, binary, out, errno>>
    /\ IF arg >= argc
       THEN /\ pc' = "exit" /\ retval' = <<RET_INVALID_PARAMS>>
            /\ UNCHANGED <<sFirmwareDescription, tileFileName, arg, handles>>
       ELSE /\ sFirmwareDescription' = strncpy(argv[arg], kFirmwareDescriptionSize)
            /\ arg' = arg + 1
            /\ IF arg + 1 >= argc
               THEN /\ pc' = "exit" /\ retval' = <<RET_INVALID_PARAMS>>
                    /\ UNCHANGED <<tileFileName, handles>>
               ELSE /\ tileFileName' = argv[arg + 1]
                    /\ \/ /\ pc' = "header" /\ retval' = retval
                          /\ handles' = Opened(handles, "file")
                       \/ /\ pc' = "exit" /\ retval' = <<RET_READ_ERROR>>
                          /\ handles' = handles

\* a writeAndCrc of main whose failure is recorded but does not end the run
Write_GoOn(sec, data, next) ==
    \E w \in fwrite(data) :
        LET r == writeAndCrc(data, checksum, w)
        IN  /\ checksum' = r.crc
            /\ out' = Append(out, [sec |-> sec, part |-> partCount, data |-> r.got, ok |-> r.ok])
            /\ pc' = next
            /\ result' = IF r.ok THEN result ELSE RET_WRITE_ERROR

\* one writeAndCrc of main: data goes to the firmware file as section sec; on
\* success main goes on at next, on failure it leaves with RET_WRITE_ERROR
Write(sec, data, next) ==
    \E w \in fwrite(data) :
        LET r == writeAndCrc(data, checksum, w)
        IN  /\ checksum' = r.crc
            /\ out' = Append(out, [sec |-> sec, part |-> partCount, data |-> r.got, ok |-> r.ok])
            /\ IF r.ok
               THEN pc' = next /\ result' = result
               ELSE pc' = "cleanup" /\ result' = RET_WRITE_ERROR

\* the header written with sizeof(sHeader) for kHeaderSize
WriteHeader_Whole ==
    /\ pc = "header"
    /\ Write("header", Lit(sHeader), "description")
    /\ UNCHANGED <<inputVars, optVars, retval, sFirmwareDescription, sBuffer, tileFileName,
                   arg, partVars, binary, handles, errno>>

WriteHeader ==
    /\ pc = "header"
    /\ Write("header", Lit(SubSeq(sHeader, 1, kHeaderSize)), "description")
    /\ UNCHANGED <<inputVars, optVars, retval, sFirmwareDescription, sBuffer, tileFileName,
                   arg, partVars, binary, handles, errno>>

WriteDescription ==
    /\ pc = "description"
    /\ Write("description", Lit(sFirmwareDescription), "tile")
    /\ UNCHANGED <<inputVars, optVars, retval, sFirmwareDescription, sBuffer, tileFileName,
                   arg, partVars, binary, handles, errno>>

\* ------------------------------------------------------------------- tile
\* a | b on naturals
RECURSIVE BitOr(_, _)
BitOr(a, b) ==
    IF a = 0 THEN b
    ELSE IF b = 0 THEN a
    ELSE 2 * BitOr(a \div 2, b \div 2) + (IF a % 2 = 1 \/ b % 2 = 1 THEN 1 ELSE 0)

\* x >> n and x << n on naturals, and the store of an int in a uint8_t
Shr(x, n) == x \div (2 ^ n)
Shl(x, n) == x * (2 ^ n)
Byte(x) == x % 256

\* #define RGB565(r, g, b) (((r) << 11) | ((g) << 5) | (b)), stored in a uint16_t
RGB565(r, g, b) == BitOr(BitOr(Shl(r, 11), Shl(g, 5)), b) % 65536

\* the byte at pngData[i] and the uint16_t at ((uint16_t*)pngData)[i], host order
pngAt(d, i) == d[i + 1]
png16At(d, i) == d[2 * i + 1] + 256 * d[2 * i + 2]

\* x * a / 0xFFFF >> 11 stored in a uint8_t, for 16-bit x and a.  The product
\* is a signed int: past INT_MAX the behaviour is undefined, and ub names what
\* the build makes of it: "wrap" (two's complement product, truncating
\* division, arithmetic shift) or "exact" (the product taken as if in Z).
Scale16(x, a, ub) ==
    LET t == (x \div 256) * a
        u == (x % 256) * a
        exact == 256 * (t \div 65535) + ((256 * (t % 65535) + u) \div 65535)
        product == NAdd(NMulAdd(FromInt(t), 256, 0), FromInt(u))
        overflows == ~NLess(product, <<0, 32768>>)
        minus == NSub(<<0, 0, 1>>, product)
        magnitude == Digit(minus, 1) + 65536 * Digit(minus, 2)
        quotient == magnitude \div 65535
        shifted == (quotient + 2047) \div 2048
    IN  IF overflows /\ ub = "wrap"
        THEN (256 - (shifted % 256)) % 256
        ELSE Byte(Shr(exact, 11))

\* the 8-bit color turn with the alpha sample left out
Rgb8_Opaque(fmt, d) ==
    LET a == 255
        r == Byte(Shr((pngAt(d, 0) * a) \div 255, 3))
        g0 == Byte(Shl(Shr((pngAt(d, 1) * a) \div 255, 3), 1))
        g == BitOr(g0, Shr(g0, 5))
        b == Byte(Shr((pngAt(d, 2) * a) \div 255, 3))
    IN  <<RGB565(r, g, b)>>

\* UPNG_RGB8, UPNG_RGBA8: one turn of the loop
Rgb8(fmt, d) ==
    LET a == IF fmt = "UPNG_RGB8" THEN 255 ELSE pngAt(d, 3)
        r == Byte(Shr((pngAt(d, 0) * a) \div 255, 3))
        g0 == Byte(Shl(Shr((pngAt(d, 1) * a) \div 255, 3), 1))
        g == BitOr(g0, Shr(g0, 5))
        b == Byte(Shr((pngAt(d, 2) * a) \div 255, 3))
    IN  <<RGB565(r, g, b)>>

\* UPNG_RGB16, UPNG_RGBA16: one turn of the loop
Rgb16(fmt, d, ub) ==
    LET a == IF fmt = "UPNG_RGB16" THEN 65535 ELSE png16At(d, 3)
        r == Scale16(png16At(d, 0), a, ub)
        g0 == Byte(Shl(Shr((pngAt(d, 1) * a) \div 65535, 11), 1))
        g == BitOr(g0, Shr(g0, 5))
        b == Scale16(png16At(d, 2), a, ub)
    IN  <<RGB565(r, g, b)>>

Luminance1(d) ==
    [i \in 1..8 |-> IF Shr(pngAt(d, 0), 8 - i) % 2 = 1 THEN 65535 ELSE 0]

\* static const uint16_t colors[4] of UPNG_LUMINANCE2
colors4 == <<0, RGB565(10, 20, 10), RGB565(21, 43, 21), 65535>>

Luminance2(d) ==
    <<colors4[(Shr(pngAt(d, 0), 6) % 4) + 1],
      colors4[(Shr(pngAt(d, 0), 4) % 4) + 1],
      colors4[(Shr(pngAt(d, 0), 2) % 4) + 1],
      colors4[(Shr(pngAt(d, 0), 6) % 4) + 1]>>

\* the pixel of a 4-bit gray value v
Gray4(v) ==
    LET r == Byte(BitOr(Shl(v, 1), Shr(v, 3)))
        g == Byte(BitOr(Shl(r, 1), Shr(r, 4)))
    IN  RGB565(r, g, r)

Luminance4(d) == <<Gray4(Shr(pngAt(d, 0), 4) % 16), Gray4(pngAt(d, 0) % 16)>>

\* the 8-bit gray turn taking the lower nibble
Luminance8_Low(d) == <<Gray4(pngAt(d, 0) % 16)>>

Luminance8(d) == <<Gray4(Shr(pngAt(d, 0), 4) % 16)>>

LuminanceAlpha1(d) ==
    [i \in 1..4 |-> IF Shr(pngAt(d, 0), 8 - 2 * i) % 4 = 3 THEN 65535 ELSE 0]

\* static const uint16_t colors[10] of UPNG_LUMINANCE_ALPHA2
colors10 ==
    <<0, RGB565(3, 7, 3), RGB565(7, 14, 17), RGB565(10, 21, 10), RGB565(14, 28, 14),
      0, RGB565(21, 43, 21), 0, 0, 65535>>

LuminanceAlpha2(d) ==
    <<colors10[(Shr(pngAt(d, 0), 6) % 4) * (Shr(pngAt(d, 0), 4) % 4) + 1],
      colors10[(Shr(pngAt(d, 0), 2) % 4) * (pngAt(d, 0) % 4) + 1]>>

LuminanceAlpha4(d) ==
    LET v == Shr(pngAt(d, 0), 4) % 8
        a == pngAt(d, 0) % 8
        c == Byte(Shl(v * a, 1) \div 7)
        r == Byte(BitOr(c, Shr(c, 4)))
        g == Byte(BitOr(Shl(r, 1), Shr(r, 4)))
    IN  <<RGB565(r, g, r)>>

LuminanceAlpha8(d) ==
    LET c == Byte(Shr((pngAt(d, 0) * pngAt(d, 1)) \div 255, 3))
        r == Byte(BitOr(c, Shr(c, 7)))
        g == Byte(BitOr(Shl(r, 1), Shr(r, 4)))
    IN  <<RGB565(r, g, r)>>

\* the pixels one turn of the loop of format fmt writes, from the bytes d at pngData
Transcode(fmt, d, ub) ==
    CASE fmt \in {"UPNG_RGB8", "UPNG_RGBA8"} -> Rgb8(fmt, d)
      [] fmt \in {"UPNG_RGB16", "UPNG_RGBA16"} -> Rgb16(fmt, d, ub)
      [] fmt = "UPNG_LUMINANCE1" -> Luminance1(d)
      [] fmt = "UPNG_LUMINANCE2" -> Luminance2(d)
      [] fmt = "UPNG_LUMINANCE4" -> Luminance4(d)
      [] fmt = "UPNG_LUMINANCE8" -> Luminance8(d)
      [] fmt = "UPNG_LUMINANCE_ALPHA1" -> LuminanceAlpha1(d)
      [] fmt = "UPNG_LUMINANCE_ALPHA2" -> LuminanceAlpha2(d)
      [] fmt = "UPNG_LUMINANCE_ALPHA4" -> LuminanceAlpha4(d)
      [] fmt = "UPNG_LUMINANCE_ALPHA8" -> LuminanceAlpha8(d)

\* the offsets from pngData of the bytes one turn of the loop of format fmt reads
Reads(fmt) ==
    CASE fmt = "UPNG_RGB8" -> {0, 1, 2}
      [] fmt = "UPNG_RGBA8" -> {0, 1, 2, 3}
      [] fmt = "UPNG_RGB16" -> {0, 1, 4, 5}
      [] fmt = "UPNG_RGBA16" -> {0, 1, 4, 5, 6, 7}
      [] fmt = "UPNG_LUMINANCE_ALPHA8" -> {0, 1}
      [] OTHER -> {0}

\* the bytes pngData advances by in one turn: upng_get_bpp(upng) / 8, 1 or 2
SourceStep(fmt) ==
    CASE fmt = "UPNG_RGB8" -> 3
      [] fmt = "UPNG_RGBA8" -> 4
      [] fmt = "UPNG_RGB16" -> 6
      [] fmt = "UPNG_RGBA16" -> 8
      [] fmt = "UPNG_LUMINANCE_ALPHA8" -> 2
      [] OTHER -> 1

\* htole16 of each pixel, as the bytes stored through rawData
RECURSIVE PixelBytes(_)
PixelBytes(ps) ==
    IF ps = <<>> THEN <<>> ELSE <<Head(ps) % 256, Head(ps) \div 256>> \o PixelBytes(Tail(ps))

handleUpngError(err) ==
    IF err = "UPNG_EOK" THEN RET_OK
    ELSE IF err = "UPNG_ENOTFOUND" THEN RET_READ_ERROR
    ELSE RET_INVALID_PARAMS

\* the turns of a loop that runs one turn past rawDataEnd
Turns_OnePast(n) == ((kTileByteSize + 2 * n - 1) \div (2 * n)) + 1

\* the turns of a loop that stops one turn before rawDataEnd
Turns_OneShort(n) == ((kTileByteSize + 2 * n - 1) \div (2 * n)) - 1

\* the turns of a loop that starts at sBuffer, stores n pixels in a turn and
\* goes on while rawData < rawDataEnd
Turns(n) == (kTileByteSize + 2 * n - 1) \div (2 * n)

\* decodePng with the decoding moved before the look at width and height
decodePng_DecodeFirst(png, alloc, buffer) ==
    LET fail(code, dec) == [result |-> code, sBuffer |-> buffer, freed |-> alloc, decoded |-> dec]
        pixels == Transcode(png.fmt, png.data, png.ovf)
    IN  IF ~alloc THEN fail(RET_READ_ERROR, FALSE)
        ELSE IF handleUpngError(png.hdr) # RET_OK THEN fail(handleUpngError(png.hdr), FALSE)
        ELSE IF handleUpngError(png.dec) # RET_OK THEN fail(handleUpngError(png.dec), FALSE)
        ELSE IF png.width # kTileWidth THEN fail(RET_INVALID_PARAMS, TRUE)
        ELSE IF png.height # kTileHeight THEN fail(RET_INVALID_PARAMS, TRUE)
        ELSE IF png.fmt = "UPNG_BADFORMAT" THEN fail(RET_INVALID_PARAMS, TRUE)
        ELSE [result |-> RET_OK,
              sBuffer |-> Overwrite(buffer, Rep(PixelBytes(pixels), Turns(Len(pixels)))),
              freed |-> TRUE, decoded |-> TRUE]

\* decodePng(tileFileName, quiet) on the decoder's report png; alloc tells
\* whether upng_new_from_file returned an object.  Gives the return code, what
\* sBuffer holds afterwards and whether the object was freed.
decodePng(png, alloc, buffer) ==
    LET fail(code, dec) == [result |-> code, sBuffer |-> buffer, freed |-> alloc, decoded |-> dec]
        pixels == Transcode(png.fmt, png.data, png.ovf)
    IN  IF ~alloc THEN fail(RET_READ_ERROR, FALSE)
        ELSE IF handleUpngError(png.hdr) # RET_OK THEN fail(handleUpngError(png.hdr), FALSE)
        ELSE IF png.width # kTileWidth THEN fail(RET_INVALID_PARAMS, FALSE)
        ELSE IF png.height # kTileHeight THEN fail(RET_INVALID_PARAMS, FALSE)
        ELSE IF handleUpngError(png.dec) # RET_OK THEN fail(handleUpngError(png.dec), FALSE)
        ELSE IF png.fmt = "UPNG_BADFORMAT" THEN fail(RET_INVALID_PARAMS, TRUE)
        ELSE [result |-> RET_OK,
              sBuffer |-> Overwrite(buffer, Rep(PixelBytes(pixels), Turns(Len(pixels)))),
              freed |-> TRUE, decoded |-> TRUE]

\* the decoder object and its pixel buffer after decodePng gave r
Held(h, alloc, r) ==
    LET object == IF ~alloc THEN h
                  ELSE IF r.freed THEN Closed(Opened(h, "upng"), "upng")
                  ELSE Opened(h, "upng")
    IN  IF r.decoded THEN Closed(Opened(object, "pixels"), "pixels") ELSE object

\* the tile step without the look for a byte past the tile
LoadTile_NoExcess ==
    /\ pc = "tile"
    /\ UNCHANGED <<inputVars, optVars, retval, checksum, sFirmwareDescription, tileFileName,
                   arg, partVars, binary, out, errno>>
    /\ IF endsWith(tileFileName, S(".png"))
       THEN \E alloc \in BOOLEAN :
              LET r == decodePng(upng, alloc, sBuffer)
              IN  /\ result' = r.result
                  /\ sBuffer' = r.sBuffer
                  /\ handles' = Held(handles, alloc, r)
                  /\ pc' = IF r.result = RET_OK THEN "tile_write" ELSE "cleanup"
       ELSE \/ /\ result' = RET_READ_ERROR
               /\ pc' = "cleanup"
               /\ UNCHANGED <<sBuffer, handles>>
            \/ /\ Exists(tileFileName)
               /\ handles' = Closed(Opened(handles, "tileFile"), "tileFile")
               /\ result' = RET_READ_ERROR
               /\ pc' = "cleanup"
               /\ sBuffer' = <<>>
            \/ /\ Exists(tileFileName)
               /\ handles' = Closed(Opened(handles, "tileFile"), "tileFile")
               /\ LET size == FS[tileFileName].size
                      count == IF NLess(size, FromInt(kTileByteSize)) THEN size
                               ELSE FromInt(kTileByteSize)
                  IN  /\ sBuffer' = Overwrite(sBuffer, Window("file", tileFileName, <<>>, count))
                      /\ IF count # FromInt(kTileByteSize)
                         THEN result' = RET_INVALID_PARAMS /\ pc' = "cleanup"
                         ELSE result' = result /\ pc' = "tile_write"

LoadTile ==
    /\ pc = "tile"
    /\ UNCHANGED <<inputVars, optVars, retval, checksum, sFirmwareDescription, tileFileName,
                   arg, partVars, binary, out, errno>>
    /\ IF endsWith(tileFileName, S(".png"))
       THEN \E alloc \in BOOLEAN :
              LET r == decodePng(upng, alloc, sBuffer)
              IN  /\ result' = r.result
                  /\ sBuffer' = r.sBuffer
                  /\ handles' = Held(handles, alloc, r)
                  /\ pc' = IF r.result = RET_OK THEN "tile_write" ELSE "cleanup"
       ELSE \/ \* fopen(tileFileName, "rb") fails
               /\ result' = RET_READ_ERROR
               /\ pc' = "cleanup"
               /\ UNCHANGED <<sBuffer, handles>>
            \/ \* fread stops on a read error
               /\ Exists(tileFileName)
               /\ handles' = Closed(Opened(handles, "tileFile"), "tileFile")
               /\ result' = RET_READ_ERROR
               /\ pc' = "cleanup"
               /\ sBuffer' = <<>>
            \/ /\ Exists(tileFileName)
               /\ handles' = Closed(Opened(handles, "tileFile"), "tileFile")
               /\ LET size == FS[tileFileName].size
                      count == IF NLess(size, FromInt(kTileByteSize)) THEN size
                               ELSE FromInt(kTileByteSize)
                  IN  /\ sBuffer' = Overwrite(sBuffer, Window("file", tileFileName, <<>>, count))
                      /\ IF count # FromInt(kTileByteSize)
                         THEN result' = RET_INVALID_PARAMS /\ pc' = "cleanup"
                         ELSE IF size # FromInt(kTileByteSize)
                         THEN result' = RET_INVALID_PARAMS /\ pc' = "cleanup"
                         ELSE result' = result /\ pc' = "tile_write"

WriteTile ==
    /\ pc = "tile_write"
    /\ Write("tile", Take(sBuffer, FromInt(kTileByteSize)), "loop")
    /\ arg' = IF pc' = "loop" THEN arg + 1 ELSE arg
    /\ partCount' = 0
    /\ UNCHANGED <<inputVars, optVars, retval, sFirmwareDescription, sBuffer, tileFileName,
                   part, autoPartitionSize, length, binary, handles, errno>>

\* part left as it was
memset_Skipped(p) == p

\* ------------------------------------------------------------- partitions
memset(p) == ZeroPart

\* for (...; arg < argc; ...) { odroid_partition_t part; memset(&part, 0, ...)
NextPartition ==
    /\ pc = "loop"
    /\ IF arg < argc
       THEN part' = memset(part) /\ pc' = "part_type"
       ELSE part' = part /\ pc' = "checksum"
    /\ UNCHANGED <<inputVars, optVars, retval, result, checksum, sFirmwareDescription,
                   sBuffer, tileFileName, arg, partCount, autoPartitionSize, length, binary,
                   out, handles, errno>>

\* the partition type named by str: whether it is accepted, the value left in
\* part.type and errno afterwards
ParseType(str, type0, en) ==
    IF str = S("app") THEN [ok |-> TRUE, type |-> PARTITION_APP, errno |-> en]
    ELSE IF str = S("data") THEN [ok |-> TRUE, type |-> PARTITION_DATA, errno |-> en]
    ELSE LET r == strtoul(str)
             e == IF r.erange THEN "ERANGE" ELSE en
         IN  IF r.value = <<>> /\ r.endPtr = 0
             THEN [ok |-> FALSE, type |-> type0, errno |-> e]
             ELSE IF r.value = ULONG_MAX /\ e = "ERANGE"
             THEN [ok |-> FALSE, type |-> type0, errno |-> e]
             ELSE [ok |-> r.value = FromInt(U8(r.value)), type |-> U8(r.value), errno |-> e]

\* the reserved range ending at 0x3E
Reserved_Short(type) == (type # PARTITION_APP) /\ (type # PARTITION_DATA) /\ (type < 63)

\* types other than app and data below 0x40 are reserved
Reserved(type) == (type # PARTITION_APP) /\ (type # PARTITION_DATA) /\ (type < 64)

PartType ==
    /\ pc = "part_type"
    /\ LET r == ParseType(argv[arg], part.type, errno)
       IN  /\ part' = [part EXCEPT !.type = r.type]
           /\ errno' = r.errno
           /\ IF r.ok /\ ~Reserved(r.type)
              THEN pc' = "part_subtype" /\ result' = result
              ELSE pc' = "cleanup" /\ result' = RET_INVALID_PARAMS
    /\ UNCHANGED <<inputVars, optVars, retval, checksum, sFirmwareDescription, sBuffer,
                   tileFileName, arg, partCount, autoPartitionSize, length, binary, out,
                   handles>>

\* ota_N with any second digit after a 1
ParseOta_AnyDigit(str, sub0) ==
    IF ch(str, 4) < 48 \/ ch(str, 4) > 57
    THEN [ok |-> FALSE, subtype |-> sub0]
    ELSE LET d == ch(str, 4) - 48
         IN  IF ch(str, 5) # 0
             THEN IF ch(str, 6) # 0 \/ d # 1 \/ ch(str, 5) < 48 \/ ch(str, 5) > 57
                  THEN [ok |-> FALSE, subtype |-> d]
                  ELSE [ok |-> TRUE, subtype |-> APP_OTA(d * 10 + ch(str, 5) - 48)]
             ELSE [ok |-> TRUE, subtype |-> APP_OTA(d)]

\* the literal ota_N of an app partition: accepted or not, and part.subtype
ParseOta(str, sub0) ==
    IF ch(str, 4) < 48 \/ ch(str, 4) > 57
    THEN [ok |-> FALSE, subtype |-> sub0]
    ELSE LET d == ch(str, 4) - 48
         IN  IF ch(str, 5) # 0
             THEN IF ch(str, 6) # 0 \/ d # 1 \/ ch(str, 5) < 48 \/ ch(str, 5) > 53
                  THEN [ok |-> FALSE, subtype |-> d]
                  ELSE [ok |-> TRUE, subtype |-> APP_OTA(d * 10 + ch(str, 5) - 48)]
             ELSE [ok |-> TRUE, subtype |-> APP_OTA(d)]

\* the numeric subtype with the data range one too wide
NumericSubtype_Wide(type, str, sub0, en) ==
    LET r == strtoul(str)
        e == IF r.erange THEN "ERANGE" ELSE en
        sub == U8(r.value)
    IN  IF r.value = <<>> /\ r.endPtr = 0
        THEN [ok |-> FALSE, subtype |-> sub0, errno |-> e]
        ELSE IF r.value = LONG_MAX /\ e = "ERANGE"
        THEN [ok |-> FALSE, subtype |-> sub0, errno |-> e]
        ELSE IF ch(str, r.endPtr) # 0
        THEN [ok |-> FALSE, subtype |-> sub, errno |-> e]
        ELSE IF r.value # FromInt(sub)
        THEN [ok |-> FALSE, subtype |-> sub, errno |-> e]
        ELSE IF type = PARTITION_APP
        THEN [ok |-> ~((sub # APP_FACTORY) /\ ((sub < 16) \/ (sub > 31))),
              subtype |-> sub, errno |-> e]
        ELSE IF type = PARTITION_DATA
        THEN [ok |-> ~(sub > 3), subtype |-> sub, errno |-> e]
        ELSE [ok |-> TRUE, subtype |-> sub, errno |-> e]

\* a subtype given as a number
NumericSubtype(type, str, sub0, en) ==
    LET r == strtoul(str)
        e == IF r.erange THEN "ERANGE" ELSE en
        sub == U8(r.value)
    IN  IF r.value = <<>> /\ r.endPtr = 0
        THEN [ok |-> FALSE, subtype |-> sub0, errno |-> e]
        ELSE IF r.value = LONG_MAX /\ e = "ERANGE"
        THEN [ok |-> FALSE, subtype |-> sub0, errno |-> e]
        ELSE IF ch(str, r.endPtr) # 0
        THEN [ok |-> FALSE, subtype |-> sub, errno |-> e]
        ELSE IF r.value # FromInt(sub)
        THEN [ok |-> FALSE, subtype |-> sub, errno |-> e]
        ELSE IF type = PARTITION_APP
        THEN [ok |-> ~((sub # APP_FACTORY) /\ ((sub < 16) \/ (sub > 31))),
              subtype |-> sub, errno |-> e]
        ELSE IF type = PARTITION_DATA
        THEN [ok |-> ~(sub > 2), subtype |-> sub, errno |-> e]
        ELSE [ok |-> TRUE, subtype |-> sub, errno |-> e]

ParseSubtype(type, str, sub0, en) ==
    IF type = PARTITION_APP /\ str = S("factory")
    THEN [ok |-> TRUE, subtype |-> APP_FACTORY, errno |-> en]
    ELSE IF type = PARTITION_APP /\ strncmp0(str, S("ota_"))
    THEN [ok |-> ParseOta(str, sub0).ok, subtype |-> ParseOta(str, sub0).subtype, errno |-> en]
    ELSE IF type = PARTITION_DATA /\ str = S("ota")
    THEN [ok |-> TRUE, subtype |-> DATA_OTA, errno |-> en]
    ELSE IF type = PARTITION_DATA /\ str = S("phy")
    THEN [ok |-> TRUE, subtype |-> DATA_PHY, errno |-> en]
    ELSE IF type = PARTITION_DATA /\ str = S("nvs")
    THEN [ok |-> TRUE, subtype |-> DATA_NVS, errno |-> en]
    ELSE NumericSubtype(type, str, sub0, en)

PartSubtype ==
    /\ pc = "part_subtype"
    /\ arg' = arg + 1
    /\ UNCHANGED <<inputVars, optVars, checksum, sFirmwareDescription, sBuffer, tileFileName,
                   partCount, autoPartitionSize, length, binary, out, handles>>
    /\ IF arg + 1 >= argc
       THEN \* return, not RETURN: the firmware file stays open
            /\ pc' = "exit" /\ retval' = <<RET_INVALID_PARAMS>>
            /\ UNCHANGED <<result, part, errno>>
       ELSE LET r == ParseSubtype(part.type, argv[arg + 1], part.subtype, errno)
            IN  /\ part' = [part EXCEPT !.subtype = r.subtype]
                /\ errno' = r.errno
                /\ retval' = retval
                /\ IF r.ok
                   THEN pc' = "part_size" /\ result' = result
                   ELSE pc' = "cleanup" /\ result' = RET_INVALID_PARAMS

\* part.length *= 1024, in uint32_t
Times1024(len) == U32(NMulAdd(len, 1024, 0))

\* part.length = value: the store replaces whatever the field held
Store(held, value) == U32(value)

\* the explicit partition size named by str, with len0 the value of
\* part.length before: accepted or not, part.length and errno afterwards
ParseSize(str, len0, en) ==
    LET r == strtoul(str)
        e == IF r.erange THEN "ERANGE" ELSE en
        c == ch(str, r.endPtr)
        \* the switch on *endPtr scales part.length, not value
        scaled == IF c \in {109, 77} THEN Times1024(Times1024(len0))
                  ELSE IF c \in {107, 75} THEN Times1024(len0)
                  ELSE len0
    IN  IF r.value = <<>> /\ r.endPtr = 0
        THEN [ok |-> FALSE, length |-> len0, errno |-> e]
        ELSE IF r.value = LONG_MAX /\ e = "ERANGE"
        THEN [ok |-> FALSE, length |-> len0, errno |-> e]
        ELSE IF c \notin {109, 77, 107, 75, 0}
        THEN [ok |-> FALSE, length |-> len0, errno |-> e]
        ELSE IF r.value # Store(scaled, r.value)
        THEN [ok |-> FALSE, length |-> Store(scaled, r.value), errno |-> e]
        ELSE [ok |-> Digit(r.value, 1) = 0, length |-> Store(scaled, r.value), errno |-> e]

PartSizeArg ==
    /\ pc = "part_size"
    /\ arg' = arg + 1
    /\ UNCHANGED <<inputVars, optVars, checksum, sFirmwareDescription, sBuffer, tileFileName,
                   partCount, length, binary, out, handles>>
    /\ IF arg + 1 >= argc
       THEN \* return, not RETURN: the firmware file stays open
            /\ pc' = "exit" /\ retval' = <<RET_INVALID_PARAMS>>
            /\ UNCHANGED <<result, part, autoPartitionSize, errno>>
       ELSE /\ retval' = retval
            /\ autoPartitionSize' = (argv[arg + 1] = S("auto"))
            /\ IF argv[arg + 1] = S("auto")
               THEN /\ pc' = "part_label"
                    /\ UNCHANGED <<result, part, errno>>
               ELSE LET r == ParseSize(argv[arg + 1], part.length, errno)
                    IN  /\ part' = [part EXCEPT !.length = r.length]
                        /\ errno' = r.errno
                        /\ IF r.ok
                           THEN pc' = "part_label" /\ result' = result
                           ELSE pc' = "cleanup" /\ result' = RET_INVALID_PARAMS

PartLabel ==
    /\ pc = "part_label"
    /\ arg' = arg + 1
    /\ UNCHANGED <<inputVars, optVars, retval, checksum, sFirmwareDescription, sBuffer,
                   tileFileName, partCount, autoPartitionSize, length, binary, out, handles,
                   errno>>
    /\ IF arg + 1 >= argc
       THEN pc' = "cleanup" /\ result' = RET_INVALID_PARAMS /\ part' = part
       ELSE /\ part' = [part EXCEPT !.label = strncpy(argv[arg + 1], LabelSize)]
            /\ pc' = "part_open" /\ result' = result

\* the auto length bumped to the next multiple even when it is aligned
AutoLength_Always(len) == U32(NAdd(<<Base - 1, Digit(len, 2)>>, <<1>>))

\* the declared length of an auto-sized partition whose file has length bytes
AutoLength(len) ==
    IF Digit(len, 1) # 0 THEN U32(NAdd(<<Base - 1, Digit(len, 2)>>, <<1>>)) ELSE len

\* fopen of the payload, its size by fseek and ftell, the size check
PartOpen ==
    /\ pc = "part_open"
    /\ arg' = arg + 1
    /\ UNCHANGED <<inputVars, optVars, retval, checksum, sFirmwareDescription, sBuffer,
                   tileFileName, partCount, autoPartitionSize, out, errno>>
    /\ IF arg + 1 >= argc
       THEN /\ pc' = "cleanup" /\ result' = RET_INVALID_PARAMS
            /\ UNCHANGED <<part, length, binary, handles>>
       ELSE \/ \* fopen(argv[arg], "rb") fails
               /\ pc' = "cleanup" /\ result' = RET_READ_ERROR
               /\ UNCHANGED <<part, length, binary, handles>>
            \/ \* fseek or ftell fails
               /\ Exists(argv[arg + 1])
               /\ pc' = "cleanup" /\ result' = RET_READ_ERROR
               /\ handles' = Closed(Opened(handles, "binary"), "binary")
               /\ UNCHANGED <<part, length, binary>>
            \/ /\ Exists(argv[arg + 1])
               /\ LET fileSize == FS[argv[arg + 1]].size
                      len == U32(fileSize)
                      declared == IF autoPartitionSize THEN AutoLength(len) ELSE part.length
                  IN  /\ length' = len
                      /\ part' = [part EXCEPT !.length = declared]
                      /\ IF NLess(declared, len)
                         THEN /\ pc' = "cleanup" /\ result' = RET_INVALID_PARAMS
                              /\ handles' = Closed(Opened(handles, "binary"), "binary")
                              /\ binary' = binary
                         ELSE /\ pc' = "part_entry" /\ result' = result
                              /\ handles' = Opened(handles, "binary")
                              /\ binary' = [f |-> argv[arg + 1], pos |-> <<>>, eof |-> FALSE]

\* a writeAndCrc inside the copy block: on failure the payload is closed first
WritePart(sec, data, next) ==
    /\ Write(sec, data, next)
    /\ IF pc' = "cleanup"
       THEN handles' = Closed(handles, "binary") /\ binary' = NoStream
       ELSE handles' = handles /\ binary' = binary

PartEntry ==
    /\ pc = "part_entry"
    /\ WritePart("entry", Lit(PartBytes(part)), "part_length")
    /\ UNCHANGED <<inputVars, optVars, retval, sFirmwareDescription, sBuffer, tileFileName,
                   arg, partVars, errno>>

PartLength ==
    /\ pc = "part_length"
    /\ WritePart("length", Lit(le32(length)), "part_copy")
    /\ UNCHANGED <<inputVars, optVars, retval, sFirmwareDescription, sBuffer, tileFileName,
                   arg, partVars, errno>>

\* fread(sBuffer, 1, kBufferSize, binary) at position pos of a file of size
\* bytes: the bytes read, and whether the end of the file was hit
fread(f, pos) ==
    LET left == NSub(FS[f].size, pos)
        short == NLess(left, FromInt(kBufferSize))
        count == IF short THEN left ELSE FromInt(kBufferSize)
    IN  [data |-> Window("file", f, pos, count), count |-> count, eof |-> short]

\* one turn of while (!feof(binary)), or the end of the loop
PartCopy ==
    /\ pc = "part_copy"
    /\ UNCHANGED <<inputVars, optVars, retval, sFirmwareDescription, tileFileName,
                   part, autoPartitionSize, length, errno>>
    /\ IF binary.eof
       THEN /\ handles' = Closed(handles, "binary")
            /\ binary' = NoStream
            /\ arg' = arg + 1
            /\ partCount' = partCount + 1
            /\ pc' = "loop"
            /\ UNCHANGED <<result, checksum, sBuffer, out>>
       ELSE \/ \* ferror(binary)
               /\ handles' = Closed(handles, "binary")
               /\ binary' = NoStream
               /\ pc' = "cleanup" /\ result' = RET_READ_ERROR
               /\ UNCHANGED <<arg, partCount, checksum, sBuffer, out>>
            \/ LET r == fread(binary.f, binary.pos)
               IN  /\ sBuffer' = Overwrite(sBuffer, r.data)
                   /\ Write("payload", r.data, "part_copy")
                   /\ IF pc' = "cleanup"
                      THEN handles' = Closed(handles, "binary") /\ binary' = NoStream
                      ELSE /\ handles' = handles
                           /\ binary' = [binary EXCEPT !.pos = NAdd(@, r.count),
                                                       !.eof = r.eof]
                   /\ UNCHANGED <<arg, partCount>>

\* the checksum write with its failure left out of result
WriteChecksum_Unchecked ==
    /\ pc = "checksum"
    /\ \E w \in fwrite(CrcBytes(checksum)) :
         /\ out' = Append(out, [sec |-> "checksum", part |-> partCount, data |-> w.got,
                                ok |-> w.ok])
         /\ result' = result
    /\ pc' = "cleanup"
    /\ UNCHANGED <<inputVars, optVars, retval, checksum, sFirmwareDescription, sBuffer,
                   tileFileName, arg, partVars, binary, handles, errno>>

\* -------------------------------------------------------------- the end
\* fwrite(&checksum, sizeof(checksum), 1, file), past writeAndCrc
WriteChecksum ==
    /\ pc = "checksum"
    /\ \E w \in fwrite(CrcBytes(checksum)) :
         /\ out' = Append(out, [sec |-> "checksum", part |-> partCount, data |-> w.got,
                                ok |-> w.ok])
         /\ result' = IF w.ok THEN result ELSE RET_WRITE_ERROR
    /\ pc' = "cleanup"
    /\ UNCHANGED <<inputVars, optVars, retval, checksum, sFirmwareDescription, sBuffer,
                   tileFileName, arg, partVars, binary, handles, errno>>

\* cleanup: fclose(file); return result;
Cleanup ==
    /\ pc = "cleanup"
    /\ handles' = Closed(handles, "file")
    /\ retval' = <<result>>
    /\ pc' = "exit"
    /\ UNCHANGED <<inputVars, optVars, result, checksum, sFirmwareDescription, sBuffer,
                   tileFileName, arg, partVars, binary, out, errno>>

Next ==
    \/ ParseOptions
    \/ OpenFirmware
    \/ WriteHeader
    \/ WriteDescription
    \/ LoadTile
    \/ WriteTile
    \/ NextPartition
    \/ PartType
    \/ PartSubtype
    \/ PartSizeArg
    \/ PartLabel
    \/ PartOpen
    \/ PartEntry
    \/ PartLength
    \/ PartCopy
    \/ WriteChecksum
    \/ Cleanup

Spec == Init /\ [][Next]_vars

TypeOK == pc \in {"options", "args", "header", "description", "tile", "tile_write", "loop",
                  "part_type", "part_subtype", "part_size", "part_label", "part_open",
                  "part_entry", "part_length", "part_copy", "checksum", "cleanup", "exit"}


\* ------------------------------------------------------ reading the output
\* main has returned 0 after assembling an image (not after -h or -V)
Assembled == pc = "exit" /\ retval = <<RET_OK>> /\ out # <<>>

\* the number of partitions the command line names in full
Partitions == (Len(argv) - 2) \div 5

\* where the five arguments of partition p (from 0) stand in argv
TypeAt(p) == 3 + 5 * p
SubtypeAt(p) == 4 + 5 * p
SizeAt(p) == 5 + 5 * p
LabelAt(p) == 6 + 5 * p
FileAt(p) == 7 + 5 * p

\* the run has stopped, or is about to, with this result while arg stood at a
Stopped(code, a) == pc \in {"cleanup", "exit"} /\ result = code /\ arg = a

\* the writes of section sec for partition p, as indexes in out
Writes(sec, p) == {i \in 1..Len(out) : out[i].sec = sec /\ out[i].part = p}

\* no write of partition p was attempted
Untouched(p) ==
    \A i \in 1..Len(out) : out[i].sec \in {"entry", "length", "payload"} => out[i].part # p

\* the bytes of a sequence of writes, in write order
RECURSIVE Flat(_)
Flat(ws) ==
    IF ws = <<>> THEN <<>>
    ELSE IF Len(ws) = 1 THEN ws[1].data
    ELSE LET h == Len(ws) \div 2
         IN  Cat(Flat(SubSeq(ws, 1, h)), Flat(SubSeq(ws, h + 1, Len(ws))))

\* str cut to n bytes or padded with zeros to n bytes
Pad(str, n) ==
    IF Len(str) >= n THEN SubSeq(str, 1, n) ELSE str \o [i \in 1..(n - Len(str)) |-> 0]

\* ----------------------------------------------------------------- C1
\* C1: in every successfully assembled image the last write is the 4-byte
\* checksum, and it is the CRC32 accumulator started at 0 and chained, in
\* write order, over every byte written before it; the checksum write itself
\* leaves the accumulator as it was.
C1_ChecksumCoversAll ==
    Assembled =>
        LET n == Len(out)
            before == SubSeq(out, 1, n - 1)
        IN  /\ out[n].sec = "checksum" /\ out[n].ok
            /\ \A i \in 1..(n - 1) : out[i].sec # "checksum" /\ out[i].ok
            /\ out[n].data = CrcBytes(crc32(<<>>, Flat(before)))
            /\ ByteLen(out[n].data) = FromInt(4)
            /\ checksum = crc32(<<>>, Flat(before))

\* an image of two partitions, one of them copied in more than one write
C1_Witness ==
    /\ Assembled
    /\ partCount = 2
    /\ \E p \in 0..1 : Cardinality(Writes("payload", p)) >= 2

\* ----------------------------------------------------------------- C2
\* what may be written straight after the write w
Follows(w, v) ==
    \/ w.sec = "header" /\ v.sec = "description"
    \/ w.sec = "description" /\ v.sec = "tile"
    \/ w.sec = "tile" /\ v.sec \in {"entry", "checksum"} /\ v.part = 0
    \/ w.sec = "entry" /\ v.sec = "length" /\ v.part = w.part
    \/ w.sec = "length" /\ v.sec = "payload" /\ v.part = w.part
    \/ w.sec = "payload" /\ v.sec = "payload" /\ v.part = w.part
    \/ w.sec = "payload" /\ v.sec \in {"entry", "checksum"} /\ v.part = w.part + 1

\* the size of the payload file of partition p
PayloadSize(p) == FS[argv[FileAt(p)]].size

RECURSIVE ImageLength(_)
ImageLength(k) ==
    IF k = 0 THEN FromInt(8324)
    ELSE NAdd(ImageLength(k - 1), NAdd(FromInt(32), PayloadSize(k - 1)))

\* the bytes of the writes of section sec for partition p, in write order
Section(ws, sec, p) == Flat(SelectSeq(ws, LAMBDA w : w.sec = sec /\ w.part = p))

\* C2: the bytes are written in exactly this order: 24-byte header, 40-byte
\* description, 8256-byte tile, then for each partition in command-line order
\* the 28-byte entry, the 4-byte actual length and the N_i payload bytes, then
\* the 4-byte checksum; the total length is 8324 + sum(32 + N_i), which is
\* 8357 for one partition with a 1-byte payload.
C2_WriteOrder ==
    /\ out # <<>> => out[1].sec = "header"
    /\ \A i \in 1..(Len(out) - 1) : out[i].ok /\ Follows(out[i], out[i + 1])
    /\ Assembled =>
        /\ ByteLen(Section(out, "header", 0)) = FromInt(24)
        /\ ByteLen(Section(out, "description", 0)) = FromInt(40)
        /\ ByteLen(Section(out, "tile", 0)) = FromInt(8256)
        /\ out[Len(out)].sec = "checksum" /\ out[Len(out)].part = Partitions
        /\ ByteLen(out[Len(out)].data) = FromInt(4)
        /\ \A p \in 0..(Partitions - 1) :
            /\ ByteLen(Section(out, "entry", p)) = FromInt(28)
            /\ ByteLen(Section(out, "length", p)) = FromInt(4)
            /\ Section(out, "payload", p)
                 = Window("file", argv[FileAt(p)], <<>>, PayloadSize(p))
        /\ ByteLen(Flat(out)) = ImageLength(Partitions)
        /\ (Partitions = 1 /\ PayloadSize(0) = FromInt(1)) => ByteLen(Flat(out)) = FromInt(8357)

\* the image of one partition with a 1-byte payload: 8357 bytes
C2_Witness ==
    /\ Assembled
    /\ Partitions = 1
    /\ PayloadSize(0) = FromInt(1)
    /\ ByteLen(Flat(out)) = FromInt(8357)

\* the uint32_t stored little-endian in the four bytes b
FromLE(b) == Trim(<<b[1] + 256 * b[2], b[3] + 256 * b[4]>>)

\* the bytes of the write out[i], for a whole entry or length write
BytesOf(i) == out[i].data[1].b

\* the declared length in the entry written as out[i]
DeclaredIn(i) == FromLE(SubSeq(BytesOf(i), 25, 28))

\* partition p of the command line has all five arguments
Named(p) == p >= 0 /\ FileAt(p) <= Len(argv)

Fits32(a) == Len(a) <= 2

Aligned64K(a) == Digit(a, 1) = 0

\* ----------------------------------------------------------------- C3
\* C3: for every partition whose 28-byte record is written, the declared
\* length in the record is a multiple of 65536 and the actual payload length
\* is at most the declared length; a partition that breaks either condition
\* makes the run fail with invalid-parameters before any byte of it (record,
\* length field or payload) is written.
C3_DeclaredCoversPayload ==
    /\ \A i \in 1..Len(out) :
        (out[i].sec = "entry" /\ out[i].ok) =>
            /\ Aligned64K(DeclaredIn(i))
            /\ NLeq(PayloadSize(out[i].part), DeclaredIn(i))
    /\ \A p \in 0..Partitions :
        (Stopped(RET_INVALID_PARAMS, SizeAt(p)) \/ Stopped(RET_INVALID_PARAMS, FileAt(p)))
            => Untouched(p)

\* ----------------------------------------------------------------- C4
\* the least multiple of 65536 that is >= len
RoundUp64K(len) == Trim(<<0>> \o Tail(NAdd(len, <<Base - 1>>)))

\* C4: with length auto and a payload of L < 2^32 bytes the declared length is
\* the least multiple of 65536 that is >= L (L itself when L is aligned), and
\* when that multiple does not fit in 32 bits the partition is rejected with
\* invalid-parameters and nothing of it is written.
C4_AutoRounding ==
    \A p \in 0..Partitions :
        (/\ Named(p)
         /\ argv[SizeAt(p)] = S("auto")
         /\ Exists(argv[FileAt(p)])
         /\ Fits32(PayloadSize(p))) =>
            LET rounded == RoundUp64K(PayloadSize(p))
            IN  /\ \A i \in Writes("entry", p) :
                     out[i].ok => Fits32(rounded) /\ DeclaredIn(i) = rounded
                /\ (partCount = p /\ arg = FileAt(p) /\ pc = "part_entry")
                     => Fits32(rounded) /\ part.length = rounded
                /\ Fits32(rounded) => ~Stopped(RET_INVALID_PARAMS, FileAt(p))
                /\ ~Fits32(rounded) =>
                     /\ Untouched(p)
                     /\ (partCount = p /\ arg = FileAt(p)) =>
                          /\ pc \in {"cleanup", "exit"}
                          /\ result \in {RET_INVALID_PARAMS, RET_READ_ERROR}

\* an auto partition of 65536 bytes written with declared length 65536
C4_Witness ==
    \E p \in 0..Partitions :
        /\ Named(p)
        /\ argv[SizeAt(p)] = S("auto")
        /\ Exists(argv[FileAt(p)])
        /\ PayloadSize(p) = <<0, 1>>
        /\ \E i \in Writes("entry", p) : out[i].ok /\ DeclaredIn(i) = <<0, 1>>

\* ----------------------------------------------------------------- C5
\* str is an integer alone or an integer with one of the suffixes k K m M
Suffixed(str) ==
    LET r == strtoul(str)
    IN  /\ r.endPtr > 0
        /\ ~r.erange
        /\ ch(str, 0) \in 48..57
        /\ \/ r.endPtr = Len(str)
           \/ r.endPtr = Len(str) - 1 /\ ch(str, r.endPtr) \in {107, 75, 109, 77}

\* the length such a str asks for: the integer times its multiplier
Asked(str) ==
    LET r == strtoul(str)
        c == ch(str, r.endPtr)
    IN  IF c \in {107, 75} THEN NMulAdd(r.value, 1024, 0)
        ELSE IF c \in {109, 77} THEN NMulAdd(NMulAdd(r.value, 1024, 0), 1024, 0)
        ELSE r.value

\* C5: for an explicit length n with a suffix the declared length is n*1024
\* for k/K and n*1048576 for m/M (n with no suffix); the 32-bit check and the
\* multiple-of-65536 check apply to the multiplied value, so 64k and 1M are
\* accepted with declared lengths 65536 and 1048576.
C5_SuffixMultiplies ==
    \A p \in 0..Partitions :
        (p >= 0 /\ SizeAt(p) <= Len(argv) /\ Suffixed(argv[SizeAt(p)])) =>
            LET asked == Asked(argv[SizeAt(p)])
            IN  /\ (partCount = p /\ arg = SizeAt(p) /\ pc = "part_label")
                     => part.length = asked
                /\ Stopped(RET_INVALID_PARAMS, SizeAt(p))
                     => ~(Fits32(asked) /\ Aligned64K(asked))
                /\ (partCount = p /\ arg = SizeAt(p) /\ Fits32(asked) /\ Aligned64K(asked))
                     => pc = "part_label"

Fits8(a) == Len(a) <= 1 /\ Digit(a, 1) < 256

\* str begins with a number that strtoul converts
Numeric(str) == strtoul(str).endPtr > 0

\* all of str is a number
WholeNumber(str) == Numeric(str) /\ strtoul(str).endPtr = Len(str)

\* ----------------------------------------------------------------- C6
\* a type value that may be used: 0, 1 or 0x40..0xFF
GoodType(v) == Fits8(v) /\ (Digit(v, 1) \in {0, 1} \/ Digit(v, 1) >= 64)

Allowed(type) ==
    IF type = 0 THEN {0} \cup (16..31)
    ELSE IF type = 1 THEN {0, 1, 2}
    ELSE 0..255

\* C7: the subtypes that can reach the output depend only on the resolved
\* type: for app 0 or 0x10..0x1F, for data 0, 1 or 2, given as a literal or as
\* a number; for custom types every number 0..255 is accepted and every
\* number above 255 is rejected.
C7_SubtypeSets ==
    /\ \A i \in 1..Len(out) :
        (out[i].sec = "entry" /\ out[i].ok) => BytesOf(i)[2] \in Allowed(BytesOf(i)[1])
    /\ \A p \in 0..Partitions :
        (p >= 0 /\ SubtypeAt(p) <= Len(argv) /\ partCount = p /\ arg = SubtypeAt(p)) =>
            LET str == argv[SubtypeAt(p)]
                v == strtoul(str).value
                accepted == pc = "part_size"
                rejected == Stopped(RET_INVALID_PARAMS, SubtypeAt(p)) /\ Untouched(p)
            IN  /\ accepted \/ rejected
                /\ accepted => part.subtype \in Allowed(part.type)
                /\ WholeNumber(str) =>
                     /\ accepted <=> (Fits8(v) /\ Digit(v, 1) \in Allowed(part.type))
                     /\ accepted => part.subtype = Digit(v, 1)
                /\ (part.type = 0 /\ str = S("factory")) => accepted /\ part.subtype = 0
                /\ (part.type = 1 /\ str = S("ota")) => accepted /\ part.subtype = 0
                /\ (part.type = 1 /\ str = S("phy")) => accepted /\ part.subtype = 1
                /\ (part.type = 1 /\ str = S("nvs")) => accepted /\ part.subtype = 2

\* a custom partition written with subtype 255
C7_Witness ==
    \E i \in 1..Len(out) :
        /\ out[i].sec = "entry" /\ out[i].ok
        /\ BytesOf(i)[1] >= 64
        /\ BytesOf(i)[2] = 255

\* ----------------------------------------------------------------- C8
\* ota_N written without a leading zero
OtaName(n) == S("ota_") \o (IF n < 10 THEN <<48 + n>> ELSE <<49, 48 + n - 10>>)

\* C8: for an app partition ota_N without leading zero gives subtype 0x10 + N
\* for N in 0..15; every other string that starts with ota_ is rejected with
\* invalid-parameters and is never parsed as a number.
C8_OtaLiteral ==
    \A p \in 0..Partitions :
        (/\ p >= 0 /\ SubtypeAt(p) <= Len(argv) /\ partCount = p /\ arg = SubtypeAt(p)
         /\ part.type = 0
         /\ strncmp0(argv[SubtypeAt(p)], S("ota_"))) =>
            LET str == argv[SubtypeAt(p)]
            IN  /\ \A n \in 0..15 :
                     str = OtaName(n) => pc = "part_size" /\ part.subtype = 16 + n
                /\ (\A n \in 0..15 : str # OtaName(n)) =>
                     Stopped(RET_INVALID_PARAMS, SubtypeAt(p)) /\ Untouched(p)

\* ota_15 written to the output as subtype 0x1F
C8_Witness ==
    \E p \in 0..Partitions :
        /\ Named(p)
        /\ argv[TypeAt(p)] = S("app")
        /\ argv[SubtypeAt(p)] = OtaName(15)
        /\ \E i \in Writes("entry", p) : out[i].ok /\ BytesOf(i)[2] = 31

\* ----------------------------------------------------------------- C9
\* the header text of the run: the last -H argument, or the default
HeaderInput ==
    LET hs == SelectSeq(opts, LAMBDA o : o.opt = "H")
    IN  IF hs = <<>> THEN kDefaultHeader ELSE hs[Len(hs)].optarg

\* C9: the header (24 bytes), the description (40 bytes) and each partition
\* label (16 bytes) are written as exactly their fixed size: the first
\* min(len, size) bytes of the input, then zero bytes up to the size; a longer
\* input is cut without any error, and an input of exactly the size is
\* written with no terminating zero.
C9_TextFields ==
    /\ \A i \in 1..Len(out) :
        /\ (out[i].sec = "header" /\ out[i].ok) => out[i].data = Lit(Pad(HeaderInput, 24))
        /\ (out[i].sec = "description" /\ out[i].ok) => out[i].data = Lit(Pad(argv[1], 40))
        /\ (out[i].sec = "entry" /\ out[i].ok) =>
              SubSeq(BytesOf(i), 5, 20) = Pad(argv[LabelAt(out[i].part)], 16)
    /\ (/\ pc = "exit"
        /\ out = <<>>
        /\ Len(argv) >= 2
        /\ \A j \in 1..Len(opts) : opts[j].opt \in {"H", "o", "q"}) => retval = <<RET_READ_ERROR>>
    /\ \A p \in 0..Partitions :
        (p >= 0 /\ LabelAt(p) <= Len(argv) /\ partCount = p /\ arg = LabelAt(p))
            => pc = "part_open"

\* a label of exactly 16 characters written with no terminating zero
C9_Witness ==
    \E i \in 1..Len(out) :
        /\ out[i].sec = "entry" /\ out[i].ok
        /\ Len(argv[LabelAt(out[i].part)]) = 16
        /\ SubSeq(BytesOf(i), 5, 20) = argv[LabelAt(out[i].part)]

\* ---------------------------------------------------------------- C10
\* the record of partition p as its arguments ask for it
RecordOf(p) ==
    LET type == ParseType(argv[TypeAt(p)], 0, "0").type
        subtype == ParseSubtype(type, argv[SubtypeAt(p)], 0, "0").subtype
        size == U32(PayloadSize(p))
        declared == IF argv[SizeAt(p)] = S("auto") THEN AutoLength(size)
                    ELSE U32(strtoul(argv[SizeAt(p)]).value)
    IN  <<type, subtype, 0, 0>> \o Pad(argv[LabelAt(p)], 16) \o <<0, 0, 0, 0>> \o le32(declared)

\* C10: every record written is type(1) subtype(1) 0 0 label(16) flags(4) = 0
\* declared length(4, little-endian), and the next write is the actual length
\* (4, little-endian); the reserved bytes and the flags are zero in every
\* record, and nothing of an earlier partition's record shows in a later one.
C10_RecordLayout ==
    \A i \in 1..Len(out) :
        (out[i].sec = "entry" /\ out[i].ok) =>
            LET p == out[i].part
            IN  /\ Len(BytesOf(i)) = 28
                /\ BytesOf(i) = RecordOf(p)
                /\ BytesOf(i)[3] = 0 /\ BytesOf(i)[4] = 0
                /\ SubSeq(BytesOf(i), 21, 24) = <<0, 0, 0, 0>>
                /\ i < Len(out) =>
                     /\ out[i + 1].sec = "length" /\ out[i + 1].part = p
                     /\ out[i + 1].ok => BytesOf(i + 1) = le32(U32(PayloadSize(p)))

\* two records written, the second with a shorter label than the first
C10_Witness ==
    \E i, j \in 1..Len(out) :
        /\ i < j
        /\ out[i].sec = "entry" /\ out[i].ok
        /\ out[j].sec = "entry" /\ out[j].ok
        /\ Len(argv[LabelAt(out[j].part)]) < Len(argv[LabelAt(out[i].part)])
        /\ j < Len(out) /\ out[j + 1].ok


\* ----------------------------------------------------------------- C11
\* C11: the copy loop ends in success for a payload of every length N >= 0,
\* N = 0 and N a multiple of kBufferSize included: once the entry and the
\* length of partition p are written and the bytes written after them are
\* exactly the N bytes of the payload file, the run does not stop in that
\* partition with a write error.
C11_CopyEveryLength ==
    \A p \in 0..(Partitions - 1) :
        (/\ pc \in {"cleanup", "exit"}
         /\ partCount = p
         /\ \E i \in Writes("length", p) : out[i].ok
         /\ Section(out, "payload", p) = Window("file", argv[FileAt(p)], <<>>, PayloadSize(p)))
        => result # RET_WRITE_ERROR


\* ----------------------------------------------------------------- C12
\* the option loop ends main at -h or -V
HelpOrVersion ==
    \E i \in 1..Len(opts) :
        /\ opts[i].opt \in {"h", "V"}
        /\ \A j \in 1..(i - 1) : opts[j].opt \in {"H", "o", "q"}

\* section sec was written for partition p, whole and successfully
Written(sec, p, size) ==
    /\ Writes(sec, p) # {}
    /\ \A i \in Writes(sec, p) : out[i].ok
    /\ ByteLen(Section(out, sec, p)) = size

\* header, description, tile, every partition's entry, length and payload, and
\* the checksum after them, were all written successfully
AllWritten ==
    /\ Len(argv) >= 2
    /\ Len(argv) = 2 + 5 * Partitions
    /\ Written("header", 0, FromInt(kHeaderSize))
    /\ Written("description", 0, FromInt(kFirmwareDescriptionSize))
    /\ Written("tile", 0, FromInt(kTileByteSize))
    /\ \A p \in 0..(Partitions - 1) :
        /\ Written("entry", p, FromInt(PartitionSize))
        /\ Written("length", p, FromInt(4))
        /\ \A i \in Writes("payload", p) : out[i].ok
        /\ Exists(argv[FileAt(p)])
        /\ Section(out, "payload", p) = Window("file", argv[FileAt(p)], <<>>, PayloadSize(p))
    /\ Written("checksum", Partitions, FromInt(4))
    /\ out[Len(out)].sec = "checksum"

\* C12: unless -h or -V ended it, main returns 0 exactly when the header, the
\* description, the tile, every partition's record and payload and the
\* trailing checksum were all written successfully, and otherwise returns
\* -1, -2 or -3.
C12_ExitCodes ==
    (pc = "exit" /\ ~HelpOrVersion) =>
        /\ retval \in {<<RET_OK>>, <<RET_INVALID_PARAMS>>, <<RET_READ_ERROR>>, <<RET_WRITE_ERROR>>}
        /\ retval = <<RET_OK>> <=> AllWritten
        /\ <<RET_INVALID_PARAMS, RET_READ_ERROR, RET_WRITE_ERROR>> = <<-1, -2, -3>>

\* everything but the checksum was written, and main returned -3
C12_Witness ==
    /\ pc = "exit"
    /\ retval = <<RET_WRITE_ERROR>>
    /\ Partitions = 2
    /\ out[Len(out)].sec = "checksum"
    /\ ~out[Len(out)].ok


\* ----------------------------------------------------------------- C13
\* the tile step of main has run
TileLoaded ==
    /\ pc \notin {"options", "args", "header", "description", "tile"}
    /\ \E i \in 1..Len(out) : out[i].sec = "description" /\ out[i].ok

C14_PngSize ==
    (/\ TileLoaded
     /\ endsWith(argv[2], S(".png"))
     /\ handles["upng"].opens = 1
     /\ upng.hdr = "UPNG_EOK"
     /\ upng.width # 86 \/ upng.height # 48)
    => /\ Stopped(RET_INVALID_PARAMS, 2)
       /\ handles["upng"].closes = 1
       /\ handles["pixels"].opens = 0
       /\ sBuffer = <<>>
       /\ Writes("tile", 0) = {}

\* a png of 86 x 47 pixels that decodes well was refused
C14_Witness ==
    /\ pc = "exit"
    /\ TileLoaded
    /\ argv[2] = S("tall.png")
    /\ upng.height = 47 /\ upng.dec = "UPNG_EOK"
    /\ handles["upng"] = [opens |-> 1, closes |-> 1]
    /\ retval = <<RET_INVALID_PARAMS>>


\* ------------------------------------------------------- the tile alone
\* The tile step of main on its own, for every format of the transcoder: the
\* run `mkfw test tile.png ...` stands at the tile step, the header and the
\* description written, and the decoder delivers one of the pngs below.
Word(w) == <<w % 256, w \div 256>>

Samples8 == {0, 4, 7, 8, 100, 132, 255}
Samples16 == {0, 2048, 4660, 32768, 32769, 65535}

\* an 86 x 48 png of format fmt that decodes to the bytes of data, over and over
TilePng(fmt, data, ovf) ==
    [PngFile("UPNG_EOK", kTileWidth, kTileHeight, "UPNG_EOK", fmt, data) EXCEPT !.ovf = ovf]

PixSamples ==
    {TilePng("UPNG_RGB8", <<r, g, b>>, "wrap") : r \in Samples8, g \in Samples8, b \in Samples8}
    \cup {TilePng("UPNG_RGBA8", <<r, g, b, a>>, "wrap") :
            r \in {0, 4, 132, 255}, g \in {4, 100, 255}, b \in {0, 8, 255}, a \in {0, 1, 128, 255}}
    \cup {TilePng("UPNG_RGB16", Word(r) \o Word(g) \o Word(b), o) :
            r \in Samples16, g \in Samples16, b \in {0, 32769, 65535}, o \in {"wrap", "exact"}}
    \cup {TilePng("UPNG_RGBA16", Word(r) \o Word(g) \o Word(b) \o Word(a), o) :
            r \in {0, 4660, 65535}, g \in {0, 2048, 65535}, b \in {0, 32769},
            a \in {0, 32768, 65535}, o \in {"wrap", "exact"}}
    \cup {TilePng(f, <<v>>, "wrap") :
            f \in {"UPNG_LUMINANCE1", "UPNG_LUMINANCE2", "UPNG_LUMINANCE4", "UPNG_LUMINANCE8",
                   "UPNG_LUMINANCE_ALPHA1", "UPNG_LUMINANCE_ALPHA2", "UPNG_LUMINANCE_ALPHA4"},
            v \in 0..255}
    \cup {TilePng("UPNG_LUMINANCE_ALPHA8", <<v, a>>, "wrap") :
            v \in {0, 7, 8, 100, 255}, a \in {0, 1, 128, 254, 255}}

\* what sBuffer holds before the tile step: nothing the program stored, or
\* kBufferSize bytes stored there earlier
PriorBuffers == {<<>>, Window("mem", S("sBuffer"), <<>>, FromInt(kBufferSize))}

PixInit ==
    /\ opts = <<>>
    /\ argv = <<S("test"), S("tile.png")>> \o Arg5(BaseTuple)
    /\ upng \in PixSamples
    /\ pc = "tile"
    /\ retval = <<>>
    /\ result = RET_OK
    /\ firmwareName = kDefaultFirmwareName
    /\ quiet = FALSE
    /\ sHeader = strncpy(kDefaultHeader, kHeaderSize) \o <<0>>
    /\ sFirmwareDescription = strncpy(S("test"), kFirmwareDescriptionSize)
    /\ checksum = crc32(crc32(<<>>, Lit(SubSeq(sHeader, 1, kHeaderSize))), Lit(sFirmwareDescription))
    /\ sBuffer \in PriorBuffers
    /\ tileFileName = S("tile.png")
    /\ arg = 2
    /\ partCount = 0
    /\ part = StackPart
    /\ autoPartitionSize = FALSE
    /\ length = <<>>
    /\ binary = NoStream
    /\ out = <<[sec |-> "header", part |-> 0, data |-> Lit(SubSeq(sHeader, 1, kHeaderSize)),
                ok |-> TRUE],
               [sec |-> "description", part |-> 0, data |-> Lit(sFirmwareDescription),
                ok |-> TRUE]>>
    /\ handles = Opened([k \in Kinds |-> [opens |-> 0, closes |-> 0]], "file")
    /\ errno = "0"

PixNext == LoadTile \/ WriteTile

PixSpec == PixInit /\ [][PixNext]_vars


\* ------------------------------------------------------ reading the tile
\* byte j (from 0) of a run of known bytes
RECURSIVE ByteAt(_, _)
ByteAt(run, j) ==
    LET s == Head(run)
        n == IF s.k = "lit" THEN Len(s.b) ELSE Len(s.unit) * s.count
    IN  IF j >= n THEN ByteAt(Tail(run), j - n)
        ELSE IF s.k = "lit" THEN s.b[j + 1]
        ELSE s.unit[(j % Len(s.unit)) + 1]

\* pixel i (from 0) of a tile: le16toh of bytes 2i and 2i + 1
PixelAt(run, i) == ByteAt(run, 2 * i) + 256 * ByteAt(run, 2 * i + 1)

TilePixels == 0..(kTileWidth * kTileHeight - 1)

\* decodePng has just transcoded a png of one of these formats into sBuffer
Transcoded(fmts) ==
    /\ pc = "tile_write"
    /\ endsWith(tileFileName, S(".png"))
    /\ upng.fmt \in fmts

\* the sample at position i (from 0) of the decoded png's repeated pixel
Sample8(i) == upng.data[i + 1]
Sample16(i) == upng.data[2 * i + 1] + 256 * upng.data[2 * i + 2]

\* ----------------------------------------------------------------- C15
\* alpha and the scaled channels of an 8-bit color pixel
Alpha8 == IF upng.fmt = "UPNG_RGB8" THEN 255 ELSE Sample8(3)
Scaled8(i) == (Sample8(i) * Alpha8) \div 255

\* C15 as stated: every pixel of an 8-bit RGB or RGBA tile is
\* (r5 << 11) | (g6 << 5) | b5 with r5 = R' >> 3, b5 = B' >> 3 and g6 = G' >> 2
\* with g6 >> 5 OR-ed in, where c' = c * a / 255 and a = 255 without alpha.
C15_GreenByTwo ==
    Transcoded({"UPNG_RGB8", "UPNG_RGBA8"}) =>
        LET r5 == Scaled8(0) \div 8
            b5 == Scaled8(2) \div 8
            g == Scaled8(1) \div 4
            g6 == BitOr(g, g \div 32)
        IN  \A i \in TilePixels : PixelAt(sBuffer, i) = r5 * 2048 + g6 * 32 + b5

\* C15, amended: every pixel of an 8-bit RGB or RGBA tile is
\* (r5 << 11) | (g6 << 5) | b5 with r5 = R' >> 3, b5 = B' >> 3 and
\* g6 = (G' >> 3) << 1 with g6 >> 5 OR-ed in, where c' = c * a / 255 and
\* a = 255 without alpha.
C15_GreenByThree ==
    Transcoded({"UPNG_RGB8", "UPNG_RGBA8"}) =>
        LET r5 == Scaled8(0) \div 8
            b5 == Scaled8(2) \div 8
            g == (Scaled8(1) \div 8) * 2
            g6 == BitOr(g, g \div 32)
        IN  \A i \in TilePixels : PixelAt(sBuffer, i) = r5 * 2048 + g6 * 32 + b5

\* a half-transparent pixel whose scaled green has bit 2 set: 100 * 128 / 255 = 50
C15_Witness ==
    /\ Transcoded({"UPNG_RGBA8"})
    /\ upng.data = <<132, 100, 8, 128>>
    /\ PixelAt(sBuffer, 0) = 8 * 2048 + 12 * 32
    /\ PixelAt(sBuffer, 4127) = PixelAt(sBuffer, 0)


\* ----------------------------------------------------------------- C16
\* alpha and the scaled channels of a 16-bit color pixel: c * a / 65535
Alpha16 == IF upng.fmt = "UPNG_RGB16" THEN 65535 ELSE Sample16(3)
Scaled16(i) ==
    LET t == (Sample16(i) \div 256) * Alpha16
        u == (Sample16(i) % 256) * Alpha16
    IN  256 * (t \div 65535) + ((256 * (t % 65535) + u) \div 65535)

\* C16: every pixel of a 16-bit RGB or RGBA tile has each of its three fields
\* computed from its own 16-bit sample, scaled by a / 65535 (a = 65535 without
\* alpha) and reduced as in the 8-bit path: red and blue to the 5 bits
\* c' >> 11, green to 6 bits, either (G' >> 11) << 1 or G' >> 10, with
\* g6 >> 5 OR-ed in.
C16_OwnSample16 ==
    Transcoded({"UPNG_RGB16", "UPNG_RGBA16"}) =>
        LET r5 == Scaled16(0) \div 2048
            b5 == Scaled16(2) \div 2048
            byThree == (Scaled16(1) \div 2048) * 2
            byTwo == Scaled16(1) \div 1024
            greens == {BitOr(byThree, byThree \div 32), BitOr(byTwo, byTwo \div 32)}
        IN  \A i \in TilePixels :
                \E g6 \in greens : PixelAt(sBuffer, i) = r5 * 2048 + g6 * 32 + b5


\* ----------------------------------------------------------------- C17
\* the 4-entry ramp of the claim: 0x0000, RGB565(10,20,10), RGB565(21,43,21), 0xFFFF
Ramp == <<0, 10 * 2048 + 20 * 32 + 10, 21 * 2048 + 43 * 32 + 21, 65535>>

\* C17: in a 2-bit grayscale tile every source byte gives four pixels, the most
\* significant pair first: pixel i (0..3) of a byte is
\* ramp[(byte >> (6 - 2 * i)) & 3].
C17_FourPerByte ==
    Transcoded({"UPNG_LUMINANCE2"}) =>
        \A n \in TilePixels :
            LET i == n % 4
            IN  PixelAt(sBuffer, n) = Ramp[((Sample8(0) \div (2 ^ (6 - 2 * i))) % 4) + 1]


\* ----------------------------------------------------------------- C18
\* C18: in an 8-bit grayscale tile every source byte gives one pixel, made
\* from its upper nibble v = byte >> 4 by r = b = (v << 1) | (v >> 3),
\* g = (r << 1) | (r >> 4); it is the pixel the 4-bit grayscale format makes
\* of the sample v, whatever the lower four bits of the byte are.
C18_UpperNibble ==
    Transcoded({"UPNG_LUMINANCE8"}) =>
        LET v == Sample8(0) \div 16
            r == 2 * v + (v \div 8)
            g == 2 * r + (r \div 16)
            pixel == r * 2048 + g * 32 + r
        IN  /\ \A n \in TilePixels : PixelAt(sBuffer, n) = pixel
            /\ \A low \in 0..15 : Luminance4(<<16 * v + low>>)[1] = pixel
            /\ \A high \in 0..15 : Luminance4(<<16 * high + v>>)[2] = pixel

\* the byte 0xAF gives the pixel of the gray level 10: RGB565(21, 43, 21)
C18_Witness ==
    /\ Transcoded({"UPNG_LUMINANCE8"})
    /\ upng.data = <<175>>
    /\ PixelAt(sBuffer, 0) = 21 * 2048 + 43 * 32 + 21
    /\ PixelAt(sBuffer, 4127) = PixelAt(sBuffer, 0)


\* ----------------------------------------------------------------- C19
Formats ==
    {"UPNG_RGB8", "UPNG_RGBA8", "UPNG_RGB16", "UPNG_RGBA16", "UPNG_LUMINANCE1",
     "UPNG_LUMINANCE2", "UPNG_LUMINANCE4", "UPNG_LUMINANCE8", "UPNG_LUMINANCE_ALPHA1",
     "UPNG_LUMINANCE_ALPHA2", "UPNG_LUMINANCE_ALPHA4", "UPNG_LUMINANCE_ALPHA8"}

\* the tile in sBuffer, and what sBuffer holds past it
TileOf(buffer) == Take(buffer, FromInt(kTileByteSize))
PastTile(buffer) == Drop(buffer, FromInt(kTileByteSize))

\* C19: transcoding is deterministic: after a successful decodePng the 8256
\* tile bytes of sBuffer are made of the decoded pixels and the format alone.
\* None of them is a byte sBuffer held before, and they are the same bytes
\* whatever sBuffer held before; the tile written is these bytes.
C19_Deterministic ==
    /\ Transcoded(Formats) =>
        /\ ByteLen(sBuffer) \in {FromInt(kTileByteSize), FromInt(kBufferSize)}
        /\ \A i \in 1..Len(TileOf(sBuffer)) : TileOf(sBuffer)[i].k \in {"lit", "rep"}
        /\ \A prior \in PriorBuffers :
            /\ TileOf(decodePng(upng, TRUE, prior).sBuffer) = TileOf(sBuffer)
            /\ PastTile(decodePng(upng, TRUE, prior).sBuffer) = PastTile(prior)
    /\ \A i \in Writes("tile", 0) :
        (out[i].ok /\ endsWith(tileFileName, S(".png"))) =>
            /\ out[i].data = TileOf(sBuffer)
            /\ out[i].data = decodePng(upng, TRUE, <<>>).sBuffer

\* a tile was transcoded into a buffer that held other bytes: past the tile it
\* still holds them
C19_Witness ==
    /\ Transcoded(Formats)
    /\ ByteLen(sBuffer) = FromInt(kBufferSize)
    /\ sBuffer[Len(sBuffer)].k = "mem"
    /\ sBuffer[Len(sBuffer)].off = FromInt(kTileByteSize)
    /\ \A i \in 1..(Len(sBuffer) - 1) : sBuffer[i].k # "mem"


\* ----------------------------------------------------------------- C20
\* a type value the help text lists: 0, 1 or 0x40..0xFE
ListedType(v) == Fits8(v) /\ (Digit(v, 1) \in {0, 1} \/ (Digit(v, 1) >= 64 /\ Digit(v, 1) <= 254))

\* C20: as the help text has it, a numeric type is accepted iff it is 0, 1 or
\* in 0x40..0xFE; 0xFF is rejected like the reserved 0x02..0x3F.
C20_ListedTypes ==
    \A p \in 0..Partitions :
        (p >= 0 /\ TypeAt(p) <= Len(argv) /\ partCount = p /\ arg = TypeAt(p)
            /\ pc \notin {"loop", "part_type"}) =>
            LET str == argv[TypeAt(p)]
                v == strtoul(str).value
            IN  (str \notin {S("app"), S("data")} /\ Numeric(str)) =>
                    /\ pc = "part_subtype" <=> ListedType(v)
                    /\ ~ListedType(v) => Stopped(RET_INVALID_PARAMS, TypeAt(p))


\* ----------------------------------------------------------------- C21
\* C21: when the fwrite inside writeAndCrc fails, writeAndCrc reports the
\* failure and the accumulator is not advanced over bytes that were not
\* written: after a failed write checksum is the CRC32 of exactly the bytes
\* the firmware file received.
C21_CrcOfReceived ==
    (out # <<>> /\ ~out[Len(out)].ok /\ out[Len(out)].sec # "checksum") =>
        /\ pc \in {"cleanup", "exit"}
        /\ result = RET_WRITE_ERROR
        /\ checksum = crc32(<<>>, Flat(out))


\* ----------------------------------------------------------------- C22
\* a step of the run has failed
Failed == result # RET_OK \/ retval \notin {<<>>, <<RET_OK>>}

\* C22: failure is terminal: once a step has failed, no step of the run
\* writes to the firmware file, begins or completes a partition, or does
\* anything but go to the end of main; so no checksum follows a failure.
C22_FailureTerminal ==
    [][Failed => /\ out' = out
                 /\ partCount' = partCount
                 /\ checksum' = checksum
                 /\ arg' = arg
                 /\ pc' = "exit"
                 /\ Failed']_vars

\* the payload of the second partition could not be read: the first partition
\* is in the file, and no checksum
C22_Witness ==
    /\ pc = "exit"
    /\ retval = <<RET_READ_ERROR>>
    /\ Partitions = 2
    /\ partCount = 1
    /\ Writes("payload", 0) # {}
    /\ Writes("entry", 1) # {}
    /\ \A i \in 1..Len(out) : out[i].sec # "checksum"


\* ----------------------------------------------------------------- C23
\* C23: when main has returned, every file it opened (the firmware file, the
\* raw tile file, each payload file) has been closed exactly once, also when
\* it returned because a partition lacks its subtype or its size.
C23_ClosedOnce ==
    pc = "exit" =>
        \A k \in {"file", "tileFile", "binary"} : handles[k].closes = handles[k].opens


\* ----------------------------------------------------------------- C24
\* the bits of one pixel in the decoded buffer of each format
BitsPerPixel(fmt) ==
    CASE fmt = "UPNG_RGB8" -> 24
      [] fmt = "UPNG_RGBA8" -> 32
      [] fmt = "UPNG_RGB16" -> 48
      [] fmt = "UPNG_RGBA16" -> 64
      [] fmt = "UPNG_LUMINANCE1" -> 1
      [] fmt \in {"UPNG_LUMINANCE2", "UPNG_LUMINANCE_ALPHA1"} -> 2
      [] fmt \in {"UPNG_LUMINANCE4", "UPNG_LUMINANCE_ALPHA2"} -> 4
      [] fmt \in {"UPNG_LUMINANCE8", "UPNG_LUMINANCE_ALPHA4"} -> 8
      [] fmt = "UPNG_LUMINANCE_ALPHA8" -> 16

\* C24: for every format the loop stores exactly 4128 pixels, all in bytes
\* 0..8255 of sBuffer and none at or past 8256 (a turn stores 8, 4, 2 or 1
\* pixels, which divides 4128), and it reads ceil(4128 * bitsPerPixel / 8)
\* bytes from the decoded buffer, the last of them the last byte of a buffer
\* of that size.
C24_InsideBuffers ==
    Transcoded(Formats) =>
        LET perTurn == Len(Transcode(upng.fmt, upng.data, upng.ovf))
            turns == Turns(perTurn)
            source == (4128 * BitsPerPixel(upng.fmt) + 7) \div 8
            offsets == {(t - 1) * SourceStep(upng.fmt) + o : t \in {1, turns}, o \in Reads(upng.fmt)}
        IN  /\ perTurn \in {1, 2, 4, 8}
            /\ 4128 % perTurn = 0
            /\ turns * perTurn = 4128
            /\ ByteLen(TileOf(sBuffer)) = FromInt(8256)
            /\ \A i \in 1..Len(TileOf(sBuffer)) : TileOf(sBuffer)[i].k \in {"lit", "rep"}
            /\ PastTile(sBuffer) \in {<<>>, PastTile(Window("mem", S("sBuffer"), <<>>, FromInt(kBufferSize)))}
            /\ turns * SourceStep(upng.fmt) = source
            /\ \A o \in offsets : o >= 0 /\ o < source
            /\ \E o \in offsets : o = source - 1
            /\ Len(upng.data) = SourceStep(upng.fmt)
            /\ \A o \in Reads(upng.fmt) : o < SourceStep(upng.fmt)

\* a 1-bit gray-alpha tile, four pixels a byte, stored into a buffer that held
\* other bytes
C24_Witness ==
    /\ Transcoded({"UPNG_LUMINANCE_ALPHA1"})
    /\ upng.data = <<228>>
    /\ ByteLen(sBuffer) = FromInt(kBufferSize)
    /\ ByteLen(TileOf(sBuffer)) = FromInt(8256)
    /\ PixelAt(sBuffer, 0) = 65535 /\ PixelAt(sBuffer, 1) = 0


\* ----------------------------------------------------------------- C25
\* C25: for every partition copied to its end, the 4-byte actual-length field
\* holds the number of payload bytes that follow it in the firmware file,
\* whatever size the payload file has, sizes of 2^32 bytes and more included.
C25_LengthIsPayload ==
    \A p \in 0..(Partitions - 1) :
        partCount > p =>
            \A i \in Writes("length", p) :
                FromLE(BytesOf(i)) = ByteLen(Section(out, "payload", p))


\* ----------------------------------------------------------------- C26
\* str begins with a number and goes on after it
Trailing(str) == Numeric(str) /\ strtoul(str).endPtr < Len(str)

\* the same for a length: one k, K, m or M at the very end does not count
TrailingLength(str) ==
    /\ Trailing(str)
    /\ ~(strtoul(str).endPtr = Len(str) - 1 /\ ch(str, strtoul(str).endPtr) \in {107, 75, 109, 77})

\* C26: type, subtype and length follow the same rule: an argument that begins
\* with a number and goes on with other characters (64x, 2x, 65536kx) is
\* refused for each of the three fields.
C26_WholeArgument ==
    \A p \in 0..Partitions :
        partCount = p =>
            /\ (TypeAt(p) <= Len(argv) /\ Trailing(argv[TypeAt(p)]))
                 => ~(pc = "part_subtype" /\ arg = TypeAt(p))
            /\ (SubtypeAt(p) <= Len(argv) /\ Trailing(argv[SubtypeAt(p)]))
                 => ~(pc = "part_size" /\ arg = SubtypeAt(p))
            /\ (SizeAt(p) <= Len(argv) /\ TrailingLength(argv[SizeAt(p)]))
                 => ~(pc = "part_label" /\ arg = SizeAt(p))


\* ----------------------------------------------------------------- C27
\* the option loop ran to its end
OptionsPass == \A i \in 1..Len(opts) : opts[i].opt \in {"H", "o", "q"}

\* main returned because fopen(firmwareName, "wb") gave no file
NotCreated ==
    /\ pc = "exit"
    /\ OptionsPass
    /\ Len(argv) >= 2
    /\ handles["file"].opens = 0

\* the last write failed although it had bytes to deliver
WriteFault ==
    /\ out # <<>>
    /\ ~out[Len(out)].ok
    /\ ~(/\ out[Len(out)].sec = "payload"
         /\ Section(out, "payload", partCount)
              = Window("file", argv[FileAt(partCount)], <<>>, PayloadSize(partCount)))

\* C27: the exit status names the resource that failed: main returns -3
\* exactly when the firmware file could not be created or written, a failure
\* no valid input brings about, and -2 only for a failure of an input file.
C27_StatusNamesResource ==
    pc = "exit" =>
        /\ retval = <<RET_WRITE_ERROR>> <=> (NotCreated \/ WriteFault)
        /\ retval = <<RET_READ_ERROR>> => (~NotCreated /\ \A i \in 1..Len(out) : out[i].ok)


\* ----------------------------------------------------------------- C28
GrayFormats ==
    {"UPNG_LUMINANCE1", "UPNG_LUMINANCE2", "UPNG_LUMINANCE4", "UPNG_LUMINANCE8",
     "UPNG_LUMINANCE_ALPHA1", "UPNG_LUMINANCE_ALPHA2", "UPNG_LUMINANCE_ALPHA4",
     "UPNG_LUMINANCE_ALPHA8"}

HasAlpha(fmt) ==
    fmt \in {"UPNG_LUMINANCE_ALPHA1", "UPNG_LUMINANCE_ALPHA2", "UPNG_LUMINANCE_ALPHA4",
             "UPNG_LUMINANCE_ALPHA8"}

\* bits of one sample of a grayscale format
SampleBits(fmt) == IF HasAlpha(fmt) THEN BitsPerPixel(fmt) \div 2 ELSE BitsPerPixel(fmt)

\* pixels of a grayscale format that one turn's source bytes hold
PixelsPerTurn(fmt) == (8 * SourceStep(fmt)) \div BitsPerPixel(fmt)

\* the bits of pixel k (from 0, most significant first) of a turn's source
PixelField(k) ==
    IF upng.fmt = "UPNG_LUMINANCE_ALPHA8" THEN 256 * Sample8(0) + Sample8(1)
    ELSE (Sample8(0) \div (2 ^ (8 - BitsPerPixel(upng.fmt) * (k + 1)))) % (2 ^ BitsPerPixel(upng.fmt))

\* luminance and alpha of pixel k: with alpha the luminance sample comes first
Luma(k) ==
    IF HasAlpha(upng.fmt) THEN PixelField(k) \div (2 ^ SampleBits(upng.fmt)) ELSE PixelField(k)

AlphaOf(k) == PixelField(k) % (2 ^ SampleBits(upng.fmt))

MaxSample == 2 ^ SampleBits(upng.fmt) - 1

\* C28: in every grayscale and grayscale + alpha format the largest luminance
\* (with the largest alpha, where there is alpha) gives the pixel 0xFFFF, and
\* luminance 0 or alpha 0 gives the pixel 0x0000, at every pixel position of a
\* source byte.
C28_FullScale ==
    Transcoded(GrayFormats) =>
        \A n \in TilePixels :
            LET k == n % PixelsPerTurn(upng.fmt)
                opaque == HasAlpha(upng.fmt) => AlphaOf(k) = MaxSample
                clear == HasAlpha(upng.fmt) /\ AlphaOf(k) = 0
            IN  /\ (Luma(k) = MaxSample /\ opaque) => PixelAt(sBuffer, n) = 65535
                /\ (Luma(k) = 0 \/ clear) => PixelAt(sBuffer, n) = 0



\* ----------------------------------------------------------------- C29
\* the fields of an RGB565 pixel
RedOf(p) == p \div 2048
GreenOf(p) == (p \div 32) % 64
BlueOf(p) == p % 32

\* C29: every pixel of a grayscale or grayscale + alpha tile is a neutral
\* gray: its red field equals its blue field and its green field g has
\* g >> 1 equal to the red field; so are the entries the 2-bit formats take
\* from their lookup tables.
C29_NeutralGray ==
    Transcoded(GrayFormats) =>
        \A n \in 0..(PixelsPerTurn(upng.fmt) - 1) :
            LET p == PixelAt(sBuffer, n)
            IN  /\ RedOf(p) = BlueOf(p)
                /\ GreenOf(p) \div 2 = RedOf(p)
                /\ PixelAt(sBuffer, kTileWidth * kTileHeight - PixelsPerTurn(upng.fmt) + n) = p



\* ----------------------------------------------------------------- C30
\* x * a, both non-negative, is a value of a signed 32-bit int (at most 2^31 - 1)
ProductFits(x, a) == a = 0 \/ x <= 2147483647 \div a

\* the products channel * alpha the loop of the png's format forms in one turn,
\* as pairs <<channel, alpha>>
Products ==
    CASE upng.fmt \in {"UPNG_RGB8", "UPNG_RGBA8"} -> {<<Sample8(i), Alpha8>> : i \in 0..2}
      [] upng.fmt \in {"UPNG_RGB16", "UPNG_RGBA16"} ->
            {<<Sample16(0), Alpha16>>, <<Sample8(1), Alpha16>>, <<Sample16(2), Alpha16>>}
      [] upng.fmt = "UPNG_LUMINANCE_ALPHA4" -> {<<Shr(Sample8(0), 4) % 8, Sample8(0) % 8>>}
      [] upng.fmt = "UPNG_LUMINANCE_ALPHA8" -> {<<Sample8(0), Sample8(1)>>}
      [] OTHER -> {}

\* r, g and b as the loop of the png's format hands them to RGB565
Fields ==
    LET green(g0) == BitOr(g0, Shr(g0, 5))
        gray(r) == <<r, Byte(BitOr(Shl(r, 1), Shr(r, 4))), r>>
    IN  CASE upng.fmt \in {"UPNG_RGB8", "UPNG_RGBA8"} ->
                <<Byte(Shr(Scaled8(0), 3)),
                  green(Byte(Shl(Shr(Scaled8(1), 3), 1))),
                  Byte(Shr(Scaled8(2), 3))>>
          [] upng.fmt \in {"UPNG_RGB16", "UPNG_RGBA16"} ->
                <<Scale16(Sample16(0), Alpha16, upng.ovf),
                  green(Byte(Shl(Shr((Sample8(1) * Alpha16) \div 65535, 11), 1))),
                  Scale16(Sample16(2), Alpha16, upng.ovf)>>
          [] upng.fmt = "UPNG_LUMINANCE_ALPHA4" ->
                LET c == Byte(Shl((Shr(Sample8(0), 4) % 8) * (Sample8(0) % 8), 1) \div 7)
                IN  gray(Byte(BitOr(c, Shr(c, 4))))
          [] upng.fmt = "UPNG_LUMINANCE_ALPHA8" ->
                LET c == Byte(Shr((Sample8(0) * Sample8(1)) \div 255, 3))
                IN  gray(Byte(BitOr(c, Shr(c, 7))))

Computed ==
    {"UPNG_RGB8", "UPNG_RGBA8", "UPNG_RGB16", "UPNG_RGBA16", "UPNG_LUMINANCE_ALPHA4",
     "UPNG_LUMINANCE_ALPHA8"}

\* C30: the arithmetic of the transcoder stays in range: every product
\* channel * alpha is a value of a signed 32-bit int, red and blue are below 32
\* and green is below 64 when RGB565 packs them, so the three fields do not
\* overlap, and every pixel is a 16-bit value.
C30_InRange ==
    /\ Transcoded(Computed) =>
        /\ \A p \in Products : ProductFits(p[1], p[2])
        /\ Fields[1] < 32 /\ Fields[2] < 64 /\ Fields[3] < 32
        /\ PixelAt(sBuffer, 0) = 2048 * Fields[1] + 32 * Fields[2] + Fields[3]
    /\ Transcoded(Formats) => \A n \in TilePixels : PixelAt(sBuffer, n) < 65536

====
